---- MODULE Spec2Model ----
(***************************************************************************)
(* The board store of TwentyFive (internal/app): the in-memory BoardState  *)
(* and the nine mutating Store operations, each one taken as a single step *)
(* under the write lock (withWrite), in Spec; and the steps of withWrite   *)
(* and saveLocked, taken one by one by concurrent callers of a process     *)
(* that can stop and start again, in SaveSpec; StartSpec is SaveSpec      *)
(* started on every kind of data file NewStore can meet.  PositionSpec is  *)
(* Spec with the insertion position of a request drawn from Positions, and *)
(* LiveSpec the steps of SaveSpec in a process that stays up, with every   *)
(* goroutine scheduled fairly.                                             *)
(*                                                                         *)
(* Encoding.  IDs and task names are strings, "" is Go's empty string.     *)
(* Category names (and Task.Source, which holds one) are sequences of      *)
(* one-character strings, so that strings.TrimSpace is computed.  A *int   *)
(* is a sequence of length 0 (nil) or 1.  Slices are sequences; the Go     *)
(* index i is the TLA+ index i+1, and locations keep Go's 0-based indices. *)
(* Task.Description, Notes, Links and Checklist are assigned by            *)
(* TaskPatch.Apply exactly like Name (unconditionally, no validation) and  *)
(* are read by no operation; Name stands for them.                         *)
(***************************************************************************)
EXTENDS Integers, Sequences, FiniteSets, TLC

VARIABLES
  state,      \* Store.state, the board in memory
  last,       \* the last call of Spec: operation, arguments, error
  calls,      \* the number of calls made
  fs,         \* the data directory: the file at Store.path and the temp file
  mu,         \* Store.mu: who holds the write lock
  job,        \* the lock holder's position in withWrite and saveLocked
  proc,       \* each caller's position, and what its call returns
  process     \* whether the process runs, and how often it was started

vars == <<state, last, calls, fs, mu, job, proc, process>>

----------------------------------------------------------------------------
(* Program constants                                                       *)

ColumnCapacity == 5
CategoryLimit == 5

LocationCategory == "category"
LocationBackburner == "backburner"
LocationArchive == "archive"
LocationCategoryBoard == "board"

allowedStates == {"todo", "doing", "blocked", "done", "delegated"}

ErrNone == "nil"
ErrTaskNotFound == "TaskNotFound"
ErrCategoryNotFound == "CategoryNotFound"
ErrCapacityExceeded == "CapacityExceeded"
ErrInvalidState == "InvalidState"
ErrInvalidLocation == "InvalidLocation"
ErrInvalidTaskSize == "InvalidTaskSize"
ErrInvalidRequest == "InvalidRequest"
ErrDuplicateCategory == "DuplicateCategory"
ErrCategoryLimit == "CategoryLimit"
\* fmt.Errorf("task %s is not in archive", id): wraps no sentinel error
ErrNotArchived == "untyped: task is not in archive"
\* fmt.Errorf("decode data file: %w", err) of loadOrSeed
ErrDecode == "untyped: decode data file"
\* any error of saveLocked (create, write, sync, close, rename)
ErrSave == "untyped: save failed"

----------------------------------------------------------------------------
(* Bound of the model                                                      *)

\* the number of Store calls in a run
MaxCalls == 2

----------------------------------------------------------------------------
(* Data model                                                              *)

\* Task{}: Go's zero value
ZeroTask ==
  [ID |-> "", Name |-> "", State |-> "", Size |-> 0, Urgent |-> FALSE,
   Focused |-> FALSE, SourceID |-> "", Source |-> <<>>]

EmptyBoard ==
  [Categories |-> <<>>, Backburner |-> <<>>, Archives |-> <<>>,
   CategoryBackburner |-> <<>>, CategoryArchives |-> <<>>]

\* Go's s[i] for a 0-based i
At(s, i) == s[i + 1]

\* append(s, zero); copy(s[i+1:], s[i:]); s[i] = x      (0 <= i <= len(s))
InsertAt(s, i, x) == SubSeq(s, 1, i) \o <<x>> \o SubSeq(s, i + 1, Len(s))

\* RemoveAt that drops the last element whatever i is
RemoveLast(s, i) == SubSeq(s, 1, Len(s) - 1)

\* append(s[:i], s[i+1:]...)                            (0 <= i < len(s))
RemoveAt(s, i) == SubSeq(s, 1, i) \o SubSeq(s, i + 2, Len(s))

MinOf(S) == CHOOSE x \in S : \A y \in S : x <= y

IsSpace(c) == c \in {" ", "\t", "\n"}

RECURSIVE TrimLeft(_)
TrimLeft(s) ==
  IF s # <<>> /\ IsSpace(Head(s)) THEN TrimLeft(Tail(s)) ELSE s

RECURSIVE TrimRight(_)
TrimRight(s) ==
  IF s # <<>> /\ IsSpace(s[Len(s)]) THEN TrimRight(SubSeq(s, 1, Len(s) - 1)) ELSE s

\* strings.TrimSpace
TrimSpace(s) == TrimRight(TrimLeft(s))

ValidateTaskState(st) == IF st \in allowedStates THEN ErrNone ELSE ErrInvalidState

NormalizeSize(size) ==
  IF size < 1 \/ size > 5
    THEN [size |-> 0, err |-> ErrInvalidTaskSize]
    ELSE [size |-> size, err |-> ErrNone]

----------------------------------------------------------------------------
(* Invariant enforcer                                                      *)

RECURSIVE capacityScan(_, _, _)
capacityScan(tasks, i, total) ==
  IF i > Len(tasks) THEN ErrNone
  ELSE IF total + tasks[i].Size > ColumnCapacity THEN ErrCapacityExceeded
  ELSE capacityScan(tasks, i + 1, total + tasks[i].Size)

ensureCapacity(cat) == capacityScan(cat.Tasks, 1, 0)

MarkUrgent(tasks, urgentTaskID) ==
  [j \in DOMAIN tasks |-> [tasks[j] EXCEPT !.Urgent = (tasks[j].ID = urgentTaskID)]]

\* catIdx is 0-based
normalizeUrgent(st, catIdx, urgentTaskID) ==
  [st EXCEPT !.Categories[catIdx + 1].Tasks = MarkUrgent(@, urgentTaskID)]

Unfocus(tasks) == [j \in DOMAIN tasks |-> [tasks[j] EXCEPT !.Focused = FALSE]]

\* clearCategoryFocus that leaves the focused flags alone
keepCategoryFocus(cat) == cat

clearCategoryFocus(cat) == [cat EXCEPT !.Tasks = Unfocus(@)]

UnfocusCats(cats) == [i \in DOMAIN cats |-> clearCategoryFocus(cats[i])]

MarkFocused(tasks, focusedID) ==
  [j \in DOMAIN tasks |->
     [tasks[j] EXCEPT !.Focused = (tasks[j].ID = focusedID /\ focusedID # "")]]

normalizeFocus(st, focusedID) ==
  [Categories |->
     [i \in DOMAIN st.Categories |->
        [st.Categories[i] EXCEPT !.Tasks = MarkFocused(@, focusedID)]],
   Backburner |-> Unfocus(st.Backburner),
   Archives |-> Unfocus(st.Archives),
   CategoryBackburner |-> UnfocusCats(st.CategoryBackburner),
   CategoryArchives |-> UnfocusCats(st.CategoryArchives)]

\* clearFocus that clears nothing
keepFocus(st) == st

clearFocus(st) ==
  [Categories |-> UnfocusCats(st.Categories),
   Backburner |-> Unfocus(st.Backburner),
   Archives |-> Unfocus(st.Archives),
   CategoryBackburner |-> UnfocusCats(st.CategoryBackburner),
   CategoryArchives |-> UnfocusCats(st.CategoryArchives)]

----------------------------------------------------------------------------
(* Mutation engine                                                         *)

NoTaskLocation == [Kind |-> "", CategoryIndex |-> 0, TaskIndex |-> 0]

HasTask(tasks, id) == \E j \in DOMAIN tasks : tasks[j].ID = id

FirstTask(tasks, id) == MinOf({j \in DOMAIN tasks : tasks[j].ID = id}) - 1

\* scans Categories, then Backburner, then Archives; the first match wins
findTask(st, id) ==
  IF \E ci \in DOMAIN st.Categories : HasTask(st.Categories[ci].Tasks, id)
    THEN LET ci == MinOf({c \in DOMAIN st.Categories :
                            HasTask(st.Categories[c].Tasks, id)})
         IN [err |-> ErrNone,
             loc |-> [Kind |-> LocationCategory, CategoryIndex |-> ci - 1,
                      TaskIndex |-> FirstTask(st.Categories[ci].Tasks, id)]]
  ELSE IF HasTask(st.Backburner, id)
    THEN [err |-> ErrNone,
          loc |-> [Kind |-> LocationBackburner, CategoryIndex |-> 0,
                   TaskIndex |-> FirstTask(st.Backburner, id)]]
  ELSE IF HasTask(st.Archives, id)
    THEN [err |-> ErrNone,
          loc |-> [Kind |-> LocationArchive, CategoryIndex |-> 0,
                   TaskIndex |-> FirstTask(st.Archives, id)]]
  ELSE [err |-> ErrTaskNotFound, loc |-> NoTaskLocation]

\* the task a location addresses (the *Task findTask returns)
TaskAt(st, loc) ==
  IF loc.Kind = LocationCategory
    THEN At(At(st.Categories, loc.CategoryIndex).Tasks, loc.TaskIndex)
  ELSE IF loc.Kind = LocationBackburner THEN At(st.Backburner, loc.TaskIndex)
  ELSE At(st.Archives, loc.TaskIndex)

\* the board with the task a location addresses replaced (a write through *Task)
SetTaskAt(st, loc, task) ==
  IF loc.Kind = LocationCategory
    THEN [st EXCEPT !.Categories[loc.CategoryIndex + 1].Tasks[loc.TaskIndex + 1] = task]
  ELSE IF loc.Kind = LocationBackburner
    THEN [st EXCEPT !.Backburner[loc.TaskIndex + 1] = task]
  ELSE [st EXCEPT !.Archives[loc.TaskIndex + 1] = task]

removeTask(st, id) ==
  LET f == findTask(st, id) IN
  IF f.err # ErrNone
    THEN [err |-> ErrTaskNotFound, state |-> st, task |-> ZeroTask, loc |-> NoTaskLocation]
    ELSE [err |-> ErrNone,
          task |-> TaskAt(st, f.loc),
          loc |-> f.loc,
          state |->
            IF f.loc.Kind = LocationCategory
              THEN [st EXCEPT !.Categories[f.loc.CategoryIndex + 1].Tasks =
                                 RemoveAt(@, f.loc.TaskIndex)]
            ELSE IF f.loc.Kind = LocationBackburner
              THEN [st EXCEPT !.Backburner = RemoveAt(@, f.loc.TaskIndex)]
            ELSE [st EXCEPT !.Archives = RemoveAt(@, f.loc.TaskIndex)]]

\* restoreTask without the index: the task goes to the end of its container
restoreTaskAtEnd(st, task, loc) ==
  IF loc.Kind = LocationCategory
    THEN [st EXCEPT !.Categories[loc.CategoryIndex + 1].Tasks = Append(@, task)]
  ELSE IF loc.Kind = LocationBackburner
    THEN [st EXCEPT !.Backburner = Append(@, task)]
  ELSE IF loc.Kind = LocationArchive
    THEN [st EXCEPT !.Archives = Append(@, task)]
  ELSE st

restoreTask(st, task, loc) ==
  IF loc.Kind = LocationCategory
    THEN [st EXCEPT !.Categories[loc.CategoryIndex + 1].Tasks =
                      IF loc.TaskIndex >= Len(@) THEN Append(@, task)
                      ELSE InsertAt(@, loc.TaskIndex, task)]
  ELSE IF loc.Kind = LocationBackburner
    THEN [st EXCEPT !.Backburner = InsertAt(@, loc.TaskIndex, task)]
  ELSE IF loc.Kind = LocationArchive
    THEN [st EXCEPT !.Archives = InsertAt(@, loc.TaskIndex, task)]
  ELSE st

NoCategoryLocation == [Kind |-> "", Index |-> 0]

ZeroCategory == [ID |-> "", Name |-> <<>>, Tasks |-> <<>>]

HasCategory(cats, id) == \E i \in DOMAIN cats : cats[i].ID = id

\* 0-based index of the first category with this ID, or -1
findCategoryIndex(categories, id) ==
  IF HasCategory(categories, id)
    THEN MinOf({i \in DOMAIN categories : categories[i].ID = id}) - 1
    ELSE -1

removeCategory(st, id) ==
  IF HasCategory(st.Categories, id)
    THEN LET i == findCategoryIndex(st.Categories, id) IN
         [err |-> ErrNone, cat |-> At(st.Categories, i),
          loc |-> [Kind |-> LocationCategoryBoard, Index |-> i],
          state |-> [st EXCEPT !.Categories = RemoveAt(@, i)]]
  ELSE IF HasCategory(st.CategoryBackburner, id)
    THEN LET i == findCategoryIndex(st.CategoryBackburner, id) IN
         [err |-> ErrNone, cat |-> At(st.CategoryBackburner, i),
          loc |-> [Kind |-> LocationBackburner, Index |-> i],
          state |-> [st EXCEPT !.CategoryBackburner = RemoveAt(@, i)]]
  ELSE IF HasCategory(st.CategoryArchives, id)
    THEN LET i == findCategoryIndex(st.CategoryArchives, id) IN
         [err |-> ErrNone, cat |-> At(st.CategoryArchives, i),
          loc |-> [Kind |-> LocationArchive, Index |-> i],
          state |-> [st EXCEPT !.CategoryArchives = RemoveAt(@, i)]]
  ELSE [err |-> ErrCategoryNotFound, cat |-> ZeroCategory,
        loc |-> NoCategoryLocation, state |-> st]

\* restoreCategory that appends to the parked containers
restoreCategoryAtEnd(st, cat, loc) ==
  IF loc.Kind = LocationCategoryBoard
    THEN [st EXCEPT !.Categories =
                      IF loc.Index >= Len(@) THEN Append(@, cat)
                      ELSE InsertAt(@, loc.Index, cat)]
  ELSE IF loc.Kind = LocationBackburner
    THEN [st EXCEPT !.CategoryBackburner = Append(@, cat)]
  ELSE IF loc.Kind = LocationArchive
    THEN [st EXCEPT !.CategoryArchives = Append(@, cat)]
  ELSE st

restoreCategory(st, cat, loc) ==
  IF loc.Kind = LocationCategoryBoard
    THEN [st EXCEPT !.Categories =
                      IF loc.Index >= Len(@) THEN Append(@, cat)
                      ELSE InsertAt(@, loc.Index, cat)]
  ELSE IF loc.Kind = LocationBackburner
    THEN [st EXCEPT !.CategoryBackburner = InsertAt(@, loc.Index, cat)]
  ELSE IF loc.Kind = LocationArchive
    THEN [st EXCEPT !.CategoryArchives = InsertAt(@, loc.Index, cat)]
  ELSE st

\* the insertion index of insertTask, placeTask and placeCategory
\* an insertion index that ignores the position
insertAtEnd(position, n) == n

\* the insertion index of insertTask, placeTask and placeCategory: the position
\* when it is given and within 0..n, else n
insertIndex(position, n) ==
  IF position # <<>> /\ position[1] >= 0 /\ position[1] <= n THEN position[1] ELSE n

\* CreateTaskRequest.Normalize, MoveTaskRequest.Normalize
NormalizeTaskLocation(req) ==
  IF req.Location = "" THEN [req EXCEPT !.Location = LocationCategory] ELSE req

\* MoveCategoryRequest.Normalize
NormalizeCategoryLocation(req) ==
  IF req.Location = "" THEN [req EXCEPT !.Location = LocationCategoryBoard] ELSE req

\* MoveTaskRequest.Validate, and the location switch of CreateTaskRequest.Validate
ValidateTaskLocation(req) ==
  IF req.Location = LocationCategory
    THEN IF req.CategoryID = "" THEN ErrInvalidRequest ELSE ErrNone
  ELSE IF req.Location \in {LocationBackburner, LocationArchive} THEN ErrNone
  ELSE ErrInvalidLocation

ValidateCreateTask(req) ==
  IF ValidateTaskState(req.Task.State) # ErrNone THEN ErrInvalidState
  ELSE IF NormalizeSize(req.Task.Size).err # ErrNone THEN ErrInvalidTaskSize
  ELSE ValidateTaskLocation(req)

ValidateMoveCategory(req) ==
  IF req.Location \in {LocationCategoryBoard, LocationBackburner, LocationArchive}
    THEN ErrNone ELSE ErrInvalidLocation

\* newID is the value NewID() returns when the request carries no task ID
insertTask(st, req, newID) ==
  LET t0 == IF req.Task.ID = "" THEN [req.Task EXCEPT !.ID = newID] ELSE req.Task
      t1 == IF t0.Size = 0 THEN [t0 EXCEPT !.Size = 1] ELSE t0
      ns == NormalizeSize(t1.Size)
      task == [t1 EXCEPT !.Size = ns.size]
      parked == [task EXCEPT !.Urgent = FALSE, !.Focused = FALSE]
  IN
  IF ns.err # ErrNone THEN [err |-> ns.err, state |-> st, task |-> ZeroTask]
  ELSE IF ValidateTaskState(task.State) # ErrNone
    THEN [err |-> ErrInvalidState, state |-> st, task |-> ZeroTask]
  ELSE IF req.Location = LocationCategory
    THEN LET idx == findCategoryIndex(st.Categories, req.CategoryID) IN
         IF idx = -1 THEN [err |-> ErrCategoryNotFound, state |-> st, task |-> ZeroTask]
         ELSE
           LET at == insertIndex(req.Position, Len(At(st.Categories, idx).Tasks))
               put == [st EXCEPT !.Categories[idx + 1].Tasks = InsertAt(@, at, task)]
               urg == IF task.Urgent THEN normalizeUrgent(put, idx, task.ID) ELSE put
               foc == IF task.Focused THEN normalizeFocus(urg, task.ID) ELSE urg
           IN IF ensureCapacity(At(put.Categories, idx)) # ErrNone
                THEN [err |-> ErrCapacityExceeded,
                      state |-> [put EXCEPT !.Categories[idx + 1].Tasks = RemoveAt(@, at)],
                      task |-> ZeroTask]
                ELSE [err |-> ErrNone, state |-> foc, task |-> task]
  ELSE IF req.Location = LocationBackburner
    THEN [err |-> ErrNone, state |-> [st EXCEPT !.Backburner = Append(@, parked)],
          task |-> parked]
  ELSE IF req.Location = LocationArchive
    THEN [err |-> ErrNone, state |-> [st EXCEPT !.Archives = Append(@, parked)],
          task |-> parked]
  ELSE [err |-> ErrInvalidLocation, state |-> st, task |-> ZeroTask]

\* the task is passed by value: what placeTask changes in it is stored in the
\* board and not seen by the caller.  On ErrCapacityExceeded the returned board
\* is the one placeTask leaves behind.
placeTask(st, task, dest0) ==
  LET dest == NormalizeTaskLocation(dest0)
      verr == ValidateTaskLocation(dest)
      parked == [task EXCEPT !.Focused = FALSE, !.Urgent = FALSE,
                             !.SourceID = dest.SourceID, !.Source = dest.Source]
  IN
  IF verr # ErrNone THEN [err |-> verr, state |-> st]
  ELSE IF dest.Location = LocationCategory
    THEN LET idx == findCategoryIndex(st.Categories, dest.CategoryID) IN
         IF idx = -1 THEN [err |-> ErrCategoryNotFound, state |-> st]
         ELSE
           LET at == insertIndex(dest.Position, Len(At(st.Categories, idx).Tasks))
               t == [task EXCEPT !.Focused = FALSE, !.SourceID = "", !.Source = <<>>]
               urg == IF t.Urgent THEN normalizeUrgent(st, idx, t.ID)
                      ELSE normalizeUrgent(st, idx, "")
               put == [urg EXCEPT !.Categories[idx + 1].Tasks = InsertAt(@, at, t)]
           IN IF ensureCapacity(At(put.Categories, idx)) # ErrNone
                THEN [err |-> ErrCapacityExceeded,
                      state |-> [put EXCEPT !.Categories[idx + 1].Tasks = RemoveAt(@, at)]]
                ELSE [err |-> ErrNone, state |-> put]
  ELSE IF dest.Location = LocationBackburner
    THEN [err |-> ErrNone, state |-> [st EXCEPT !.Backburner = Append(@, parked)]]
  ELSE IF dest.Location = LocationArchive
    THEN [err |-> ErrNone, state |-> [st EXCEPT !.Archives = Append(@, parked)]]
  ELSE [err |-> ErrInvalidLocation, state |-> st]

\* placeCategory with > for >= in the test of the ceiling
placeCategoryPastCeiling(st, cat, dest) ==
  IF dest.Location = LocationCategoryBoard
    THEN IF Len(st.Categories) > CategoryLimit THEN [err |-> ErrCategoryLimit, state |-> st]
         ELSE IF ensureCapacity(cat) # ErrNone
           THEN [err |-> ErrCapacityExceeded, state |-> st]
         ELSE [err |-> ErrNone,
               state |-> [st EXCEPT !.Categories =
                            InsertAt(@, insertIndex(dest.Position, Len(@)), cat)]]
  ELSE IF dest.Location = LocationBackburner
    THEN [err |-> ErrNone,
          state |-> [st EXCEPT !.CategoryBackburner = Append(@, clearCategoryFocus(cat))]]
  ELSE IF dest.Location = LocationArchive
    THEN [err |-> ErrNone,
          state |-> [st EXCEPT !.CategoryArchives = Append(@, clearCategoryFocus(cat))]]
  ELSE [err |-> ErrInvalidLocation, state |-> st]

placeCategory(st, cat, dest) ==
  IF dest.Location = LocationCategoryBoard
    THEN IF Len(st.Categories) >= CategoryLimit THEN [err |-> ErrCategoryLimit, state |-> st]
         ELSE IF ensureCapacity(cat) # ErrNone
           THEN [err |-> ErrCapacityExceeded, state |-> st]
         ELSE [err |-> ErrNone,
               state |-> [st EXCEPT !.Categories =
                            InsertAt(@, insertIndex(dest.Position, Len(@)), cat)]]
  ELSE IF dest.Location = LocationBackburner
    THEN [err |-> ErrNone,
          state |-> [st EXCEPT !.CategoryBackburner = Append(@, clearCategoryFocus(cat))]]
  ELSE IF dest.Location = LocationArchive
    THEN [err |-> ErrNone,
          state |-> [st EXCEPT !.CategoryArchives = Append(@, clearCategoryFocus(cat))]]
  ELSE [err |-> ErrInvalidLocation, state |-> st]

MaxOf(S) == CHOOSE x \in S : \A y \in S : x >= y

\* index[id] = i for every i, id of order: the last occurrence of an ID wins;
\* reordered[pos] = task for every task in turn: the last task sent to pos wins,
\* and a slot no task is sent to keeps Task{}
reorderTasks(cat, order) ==
  LET index(id) == MaxOf({i \in DOMAIN order : order[i] = id})
      known(id) == \E i \in DOMAIN order : order[i] = id
      sent(pos) == {j \in DOMAIN cat.Tasks : index(cat.Tasks[j].ID) = pos}
      reordered == [pos \in DOMAIN cat.Tasks |->
                      IF sent(pos) = {} THEN ZeroTask ELSE cat.Tasks[MaxOf(sent(pos))]]
  IN
  IF Len(order) # Len(cat.Tasks) THEN [err |-> ErrInvalidRequest, cat |-> cat]
  ELSE IF \E j \in DOMAIN cat.Tasks : ~known(cat.Tasks[j].ID)
    THEN [err |-> ErrInvalidRequest, cat |-> cat]
  ELSE [err |-> ErrNone, cat |-> [cat EXCEPT !.Tasks = reordered]]

\* TaskPatch.Apply writes through the *Task: the task returned with an error
\* holds the fields assigned before the failing validation
Apply(p, task) ==
  LET t1 == IF p.Name # <<>> THEN [task EXCEPT !.Name = p.Name[1]] ELSE task
      t2 == IF p.State # <<>> THEN [t1 EXCEPT !.State = p.State[1]] ELSE t1
      t3 == IF p.Size # <<>> THEN [t2 EXCEPT !.Size = p.Size[1]] ELSE t2
      t4 == IF p.Urgent # <<>> THEN [t3 EXCEPT !.Urgent = p.Urgent[1]] ELSE t3
  IN
  IF p.State # <<>> /\ ValidateTaskState(p.State[1]) # ErrNone
    THEN [err |-> ErrInvalidState, task |-> t1]
  ELSE IF p.Size # <<>> /\ NormalizeSize(p.Size[1]).err # ErrNone
    THEN [err |-> ErrInvalidTaskSize, task |-> t2]
  ELSE [err |-> ErrNone, task |-> t4]

----------------------------------------------------------------------------
(* Store: what each operation's closure does to the board under the lock   *)

\* the tasks of a sequence of categories, in order
RECURSIVE TasksIn(_)
TasksIn(cats) == IF cats = <<>> THEN <<>> ELSE Head(cats).Tasks \o TasksIn(Tail(cats))

\* every task of the five containers
AllTasks(st) ==
  TasksIn(st.Categories) \o st.Backburner \o st.Archives
    \o TasksIn(st.CategoryBackburner) \o TasksIn(st.CategoryArchives)

AllCategories(st) == st.Categories \o st.CategoryBackburner \o st.CategoryArchives

TaskIDsOf(st) == {AllTasks(st)[i].ID : i \in DOMAIN AllTasks(st)}

CategoryIDsOf(st) == {AllCategories(st)[i].ID : i \in DOMAIN AllCategories(st)}

doCreateTask(st, req0, newID) ==
  LET req == NormalizeTaskLocation(req0)
      verr == ValidateCreateTask(req)
      r == insertTask(st, req, newID)
  IN IF verr # ErrNone THEN [err |-> verr, state |-> st]
     ELSE [err |-> r.err, state |-> r.state]

doUpdateTask(st, id, patch) ==
  LET f == findTask(st, id)
      a == Apply(patch, TaskAt(st, f.loc))
      patched == SetTaskAt(st, f.loc, a.task)
      urg == IF f.loc.Kind = LocationCategory
               THEN IF a.task.Urgent
                      THEN normalizeUrgent(patched, f.loc.CategoryIndex, a.task.ID)
                      ELSE normalizeUrgent(patched, f.loc.CategoryIndex, "")
               ELSE patched
  IN IF f.err # ErrNone THEN [err |-> f.err, state |-> st]
     ELSE IF a.err # ErrNone THEN [err |-> a.err, state |-> patched]
     ELSE IF f.loc.Kind = LocationCategory
             /\ ensureCapacity(At(urg.Categories, f.loc.CategoryIndex)) # ErrNone
       THEN [err |-> ErrCapacityExceeded, state |-> urg]
     ELSE [err |-> ErrNone, state |-> urg]

\* MoveTask that passes the request to placeTask as it came
doMoveTaskAsRequested(st, id, dest) ==
  LET rm == removeTask(st, id)
      pl == placeTask(rm.state, rm.task, dest)
  IN IF rm.err # ErrNone THEN [err |-> rm.err, state |-> st]
     ELSE IF pl.err # ErrNone
       THEN [err |-> pl.err, state |-> restoreTask(pl.state, rm.task, rm.loc)]
     ELSE [err |-> ErrNone, state |-> pl.state]

doMoveTask(st, id, dest) ==
  LET rm == removeTask(st, id)
      destCopy ==
        IF dest.Location \in {LocationBackburner, LocationArchive}
           /\ dest.SourceID = "" /\ rm.loc.Kind = LocationCategory
          THEN [dest EXCEPT !.SourceID = At(rm.state.Categories, rm.loc.CategoryIndex).ID,
                            !.Source = At(rm.state.Categories, rm.loc.CategoryIndex).Name]
          ELSE dest
      pl == placeTask(rm.state, rm.task, destCopy)
  IN IF rm.err # ErrNone THEN [err |-> rm.err, state |-> st]
     ELSE IF pl.err # ErrNone
       THEN [err |-> pl.err, state |-> restoreTask(pl.state, rm.task, rm.loc)]
     ELSE [err |-> ErrNone, state |-> pl.state]

doDeleteTask(st, id) ==
  LET f == findTask(st, id) IN
  IF f.err # ErrNone THEN [err |-> f.err, state |-> st]
  ELSE IF f.loc.Kind # LocationArchive
    THEN [err |-> ErrNotArchived, state |-> st]
  ELSE [err |-> ErrNone, state |-> removeTask(st, id).state]

\* NameTaken without the two loops over the parked categories
NameTakenOnBoard(st, name, id) ==
  \E i \in DOMAIN st.Categories :
    st.Categories[i].Name = name /\ st.Categories[i].ID # id

NameTaken(st, name, id) ==
  \E i \in DOMAIN AllCategories(st) :
    AllCategories(st)[i].Name = name /\ AllCategories(st)[i].ID # id

doRenameCategory(st, id, name0) ==
  LET name == TrimSpace(name0)
      i == findCategoryIndex(st.Categories, id)
  IN IF name = <<>> THEN [err |-> ErrInvalidRequest, state |-> st]
     ELSE IF NameTaken(st, name, id)
       THEN [err |-> ErrDuplicateCategory, state |-> st]
     ELSE IF i # -1
       THEN [err |-> ErrNone, state |-> [st EXCEPT !.Categories[i + 1].Name = name]]
     ELSE [err |-> ErrCategoryNotFound, state |-> st]

doCreateCategory(st, name0, newID) ==
  LET name == TrimSpace(name0) IN
  IF name = <<>> THEN [err |-> ErrInvalidRequest, state |-> st]
  ELSE IF \E i \in DOMAIN AllCategories(st) : AllCategories(st)[i].Name = name
    THEN [err |-> ErrDuplicateCategory, state |-> st]
  ELSE IF Len(st.Categories) >= CategoryLimit
    THEN [err |-> ErrCategoryLimit, state |-> st]
  ELSE [err |-> ErrNone,
        state |-> [st EXCEPT !.Categories =
                     Append(@, [ID |-> newID, Name |-> name, Tasks |-> <<>>])]]

doMoveCategory(st, id, dest0) ==
  LET dest == NormalizeCategoryLocation(dest0)
      verr == ValidateMoveCategory(dest)
      rm == removeCategory(st, id)
      pl == placeCategory(rm.state, rm.cat, dest)
  IN IF verr # ErrNone THEN [err |-> verr, state |-> st]
     ELSE IF rm.err # ErrNone THEN [err |-> rm.err, state |-> st]
     ELSE IF pl.err # ErrNone
       THEN [err |-> pl.err, state |-> restoreCategory(pl.state, rm.cat, rm.loc)]
     ELSE [err |-> ErrNone, state |-> pl.state]

doReorderCategoryTasks(st, id, order) ==
  LET i == findCategoryIndex(st.Categories, id)
      r == reorderTasks(At(st.Categories, i), order)
  IN IF i = -1 THEN [err |-> ErrCategoryNotFound, state |-> st]
     ELSE IF r.err # ErrNone THEN [err |-> r.err, state |-> st]
     ELSE [err |-> ErrNone, state |-> [st EXCEPT !.Categories[i + 1] = r.cat]]

doSetFocused(st, taskID) ==
  LET f == findTask(st, taskID)
      cleared == clearFocus(st)
  IN IF taskID = "" THEN [err |-> ErrNone, state |-> cleared]
     ELSE IF f.err # ErrNone THEN [err |-> f.err, state |-> st]
     ELSE [err |-> ErrNone,
           state |-> SetTaskAt(cleared, f.loc,
                               [TaskAt(cleared, f.loc) EXCEPT !.Focused = TRUE])]

\* withWrite: the closure's error is returned as it is; when the closure
\* succeeds the board is saved, and a failed save returns its error with the
\* in-memory board already changed
withWrite(r, saveOk) ==
  [state |-> r.state,
   err |-> IF r.err # ErrNone THEN r.err
           ELSE IF saveOk THEN ErrNone ELSE ErrSave]

\* writeDomainError: the HTTP status of an error
writeDomainError(err) ==
  IF err \in {ErrInvalidRequest, ErrInvalidState, ErrInvalidLocation, ErrInvalidTaskSize}
    THEN 400
  ELSE IF err \in {ErrTaskNotFound, ErrCategoryNotFound} THEN 404
  ELSE IF err \in {ErrCapacityExceeded, ErrCategoryLimit} THEN 409
  ELSE IF err = ErrDuplicateCategory THEN 409
  ELSE 500

----------------------------------------------------------------------------
(* Persistence layer                                                       *)

\* the data file s.path, and the file os.CreateTemp makes next to it; the
\* temp files of one directory are told apart by name only, and one save runs
\* at a time, so one name stands for them
CanonicalPath == "board.json"
TempPath == "board-*.json"

NoFile == [exists |-> FALSE, data |-> <<>>]
File(data) == [exists |-> TRUE, data |-> data]

EmptyDir == [p \in {CanonicalPath, TempPath} |-> NoFile]

\* json.MarshalIndent: the document of a board, in the three pieces a write
\* can be cut into (opening, the fields of the board, closing)
MarshalIndent(st) == <<"{", st, "}">>

\* the containers of a BoardState; a container that is nil (absent from the
\* document that was decoded) is a field the record does not have
BoardFields ==
  {"Categories", "Backburner", "Archives", "CategoryBackburner", "CategoryArchives"}

\* normalizeBoardState: every container that is nil becomes an empty slice
normalizeBoardState(st) ==
  LET field(k) == IF k \in DOMAIN st THEN st[k] ELSE <<>> IN
  [Categories |-> field("Categories"),
   Backburner |-> field("Backburner"),
   Archives |-> field("Archives"),
   CategoryBackburner |-> field("CategoryBackburner"),
   CategoryArchives |-> field("CategoryArchives")]

\* json.Unmarshal fails on a document that is cut short; the fields the
\* document does not name stay nil
Unmarshal(data) ==
  IF Len(data) = 3 /\ data[1] = "{" /\ data[3] = "}"
    THEN [err |-> ErrNone, state |-> data[2]]
    ELSE [err |-> ErrDecode, state |-> EmptyBoard]

\* BoardState{}: every container is nil
ZeroBoardState == [k \in {} |-> <<>>]

\* BoardState.Clone: out starts as BoardState{} and gets a copy of every
\* container of length > 0; a container of length 0 comes out nil
Clone(st) == [k \in {f \in DOMAIN st : Len(st[f]) > 0} |-> st[k]]

\* os.CreateTemp that hands out the data file itself
CreateTempInPlace(path) == path

\* os.CreateTemp(filepath.Dir(s.path), "board-*.json"): the name of a new,
\* empty file in the directory of path
CreateTemp(path) == TempPath

createFile(dir, p) == [dir EXCEPT ![p] = File(<<>>)]

\* tmpFile.Write, n pieces of data having reached the file
writeFile(dir, p, data, n) == [dir EXCEPT ![p] = File(SubSeq(data, 1, n))]

\* os.Remove that leaves the file
keepFile(dir, p) == dir

removeFile(dir, p) == [dir EXCEPT ![p] = NoFile]

\* os.Rename that drops oldpath and leaves newpath as it was
renameLost(dir, oldpath, newpath) == [dir EXCEPT ![oldpath] = NoFile]

\* os.Rename: newpath holds the file of oldpath, in one step
renameFile(dir, oldpath, newpath) ==
  IF oldpath = newpath THEN dir
  ELSE [q \in DOMAIN dir |->
          IF q = newpath THEN dir[oldpath] ELSE IF q = oldpath THEN NoFile ELSE dir[q]]

\* saveLocked from its first to its last statement: the temp file is created,
\* written, synced, closed and renamed over path; when a step fails the temp
\* file is removed and the file at path is the one it was
saveLocked(dir, path, st, ok) ==
  LET tmpPath == CreateTemp(path)
      written == writeFile(createFile(dir, tmpPath), tmpPath, MarshalIndent(st), 3)
  IN IF ok THEN renameFile(written, tmpPath, path)
     ELSE removeFile(dir, tmpPath)

\* GetState: a copy of the board in memory
GetState(st) == Clone(st)

----------------------------------------------------------------------------
(* Requests the callers send                                               *)

Range(f) == {f[i] : i \in DOMAIN f}

NewTask(id, size, urgent, focused) ==
  [ID |-> id, Name |-> "a", State |-> "todo", Size |-> size, Urgent |-> urgent,
   Focused |-> focused, SourceID |-> "", Source |-> <<>>]

\* well-formed tasks: without an ID, and with an ID of the caller's
GoodTasks ==
  {NewTask("", 1, FALSE, FALSE), NewTask("", 3, FALSE, FALSE),
   NewTask("", 1, TRUE, FALSE), NewTask("", 1, FALSE, TRUE),
   NewTask("t1", 1, FALSE, FALSE), NewTask("t1", 1, TRUE, FALSE),
   NewTask("t1", 1, FALSE, TRUE)}

\* tasks CreateTaskRequest.Validate refuses
BadTasks ==
  {[NewTask("", 1, FALSE, FALSE) EXCEPT !.State = "bogus"],
   [NewTask("", 1, FALSE, FALSE) EXCEPT !.Size = 6]}

\* cats are the columns the caller names; "cx" is the ID of no category
CreateTaskRequests(cats) ==
  {[Location |-> LocationCategory, CategoryID |-> c, Position |-> <<>>, Task |-> t] :
     c \in cats, t \in GoodTasks}
  \cup
  {[Location |-> "", CategoryID |-> c, Position |-> <<0>>,
    Task |-> NewTask("", 1, FALSE, FALSE)] : c \in cats \cup {"", "cx"}}
  \cup
  {[Location |-> LocationBackburner, CategoryID |-> "", Position |-> <<>>,
    Task |-> NewTask("", 1, TRUE, TRUE)],
   [Location |-> LocationArchive, CategoryID |-> "", Position |-> <<>>,
    Task |-> NewTask("t1", 1, TRUE, TRUE)]}
  \cup
  {[Location |-> LocationCategoryBoard, CategoryID |-> "", Position |-> <<>>,
    Task |-> NewTask("", 1, FALSE, FALSE)]}
  \cup
  {[Location |-> LocationBackburner, CategoryID |-> "", Position |-> <<>>, Task |-> t] :
     t \in BadTasks}

NoPatch == [Name |-> <<>>, State |-> <<>>, Size |-> <<>>, Urgent |-> <<>>]

Patches ==
  {[NoPatch EXCEPT !.Name = <<"b">>],
   [NoPatch EXCEPT !.Size = <<3>>],
   [NoPatch EXCEPT !.Urgent = <<TRUE>>],
   [NoPatch EXCEPT !.Urgent = <<FALSE>>],
   [NoPatch EXCEPT !.Name = <<"b">>, !.State = <<"bogus">>],
   [NoPatch EXCEPT !.State = <<"done">>, !.Size = <<6>>]}

\* the patch sent for a task that is on no board
AnyPatch == [NoPatch EXCEPT !.Name = <<"b">>]

MoveTaskRequests(cats) ==
  {[Location |-> LocationCategory, CategoryID |-> c, Position |-> <<>>,
    SourceID |-> "", Source |-> <<>>] : c \in cats \cup {"cx"}}
  \cup
  {[Location |-> "", CategoryID |-> c, Position |-> <<0>>,
    SourceID |-> "", Source |-> <<>>] : c \in cats \cup {""}}
  \cup
  {[Location |-> LocationBackburner, CategoryID |-> "", Position |-> <<>>,
    SourceID |-> "", Source |-> <<>>],
   [Location |-> LocationArchive, CategoryID |-> "", Position |-> <<>>,
    SourceID |-> "", Source |-> <<>>],
   [Location |-> LocationArchive, CategoryID |-> "", Position |-> <<>>,
    SourceID |-> "cz", Source |-> <<"Z">>],
   [Location |-> LocationCategoryBoard, CategoryID |-> "", Position |-> <<>>,
    SourceID |-> "", Source |-> <<>>]}

\* the destination sent for a task that is on no board
AnyMove ==
  [Location |-> LocationBackburner, CategoryID |-> "", Position |-> <<>>,
   SourceID |-> "", Source |-> <<>>]

MoveCategoryRequests ==
  {[Location |-> "", Position |-> <<>>],
   [Location |-> LocationCategoryBoard, Position |-> <<0>>],
   [Location |-> LocationBackburner, Position |-> <<>>],
   [Location |-> LocationArchive, Position |-> <<>>],
   [Location |-> LocationCategory, Position |-> <<>>]}

NameInputs == {<<" ">>, <<"A">>, <<" ", "A", " ">>, <<"b">>}

OrderPermutations(ids) ==
  {o \in [1..Len(ids) -> Range(ids)] : \A i, j \in 1..Len(ids) : o[i] = o[j] => i = j}

\* orders for a category whose task IDs are ids: its permutations, one that
\* repeats an ID, one with an unknown ID and one that is too short
Orders(ids) ==
  OrderPermutations(ids)
  \cup {[i \in 1..Len(ids) |-> ids[1]]}
  \cup {[i \in 1..Len(ids) |-> IF i = 1 THEN "tx" ELSE ids[i]]}
  \cup {[i \in 1..(Len(ids) - 1) |-> ids[i]]}

\* the IDs a caller names: every task of the board ("tx" is the ID of no task);
\* the first and the last column, every parked category and one that is on no
\* board
BoardCategoryIDs(st) ==
  {st.Categories[i].ID : i \in DOMAIN st.Categories \cap {1, Len(st.Categories)}}
CategoryIDInputs(st) ==
  BoardCategoryIDs(st)
  \cup {st.CategoryBackburner[i].ID : i \in DOMAIN st.CategoryBackburner}
  \cup {st.CategoryArchives[i].ID : i \in DOMAIN st.CategoryArchives}
  \cup {"cx"}

TasksOfCategory(st, id) ==
  IF \E i \in DOMAIN AllCategories(st) : AllCategories(st)[i].ID = id
    THEN (CHOOSE c \in Range(AllCategories(st)) : c.ID = id).Tasks
    ELSE <<>>

\* NewID() draws 16 random characters out of 36; IDs are compared for equality
\* only, so the model takes the first ID of a pool that the board does not hold
\* (a draw that repeats an ID of the board has probability 36^-16)
NewIDPool == <<"n1", "n2", "n3", "n4", "n5", "n6">>

NewID(used) == NewIDPool[MinOf({i \in DOMAIN NewIDPool : NewIDPool[i] \notin used})]

\* The entity an operation returns beside the board, when it succeeds.  r is
\* the result of its closure on the board st.
\* createdTask: the task insertTask returns, a copy of the one it stored
createdTask(st, req0, newID) == insertTask(st, NormalizeTaskLocation(req0), newID).task

\* updatedTask and focusedTask: taskPtr.Clone(), taken from the board after the change
updatedTask(st, id, r) == TaskAt(r.state, findTask(st, id).loc)
focusedTask(st, taskID, r) ==
  IF taskID = "" THEN ZeroTask ELSE TaskAt(r.state, findTask(st, taskID).loc)

\* movedTask: task.Clone() of the value removeTask returned; placeTask has worked
\* on a copy of it
movedTask(st, id) == removeTask(st, id).task

\* the category MoveCategory returns: the value removeCategory returned, whose
\* Tasks slice placeCategory's copy shares (clearCategoryFocus writes through)
movedCategory(st, id, dest0) ==
  IF NormalizeCategoryLocation(dest0).Location \in {LocationBackburner, LocationArchive}
    THEN clearCategoryFocus(removeCategory(st, id).cat)
    ELSE removeCategory(st, id).cat

\* the category RenameCategory and ReorderCategoryTasks return, and the one
\* CreateCategory has appended
categoryAt(st, id, r) == At(r.state.Categories, findCategoryIndex(st.Categories, id))
createdCategory(r) == r.state.Categories[Len(r.state.Categories)]

Entity(op, args, st, r) ==
  CASE op = "CreateTask" -> createdTask(st, args[1], NewID(TaskIDsOf(st)))
    [] op = "UpdateTask" -> updatedTask(st, args[1], r)
    [] op = "MoveTask" -> movedTask(st, args[1])
    [] op = "SetFocused" -> focusedTask(st, args[1], r)
    [] op = "MoveCategory" -> movedCategory(st, args[1], args[2])
    [] op \in {"RenameCategory", "ReorderCategoryTasks"} -> categoryAt(st, args[1], r)
    [] op = "CreateCategory" -> createdCategory(r)
    [] OTHER -> ZeroTask

\* Task{} or Category{}, returned with an error
ZeroEntity(op) ==
  IF op \in {"MoveCategory", "RenameCategory", "ReorderCategoryTasks", "CreateCategory"}
    THEN ZeroCategory ELSE ZeroTask

----------------------------------------------------------------------------
(* Store operations: one step each                                         *)

\* A run is MaxCalls calls at most.  It ends with the call that leaves the
\* board as it was (the calls that could follow it are those that follow the
\* call before it) and with the call whose save fails (it leaves the board of
\* the call whose save succeeds).
Running == calls < MaxCalls /\ last.changed /\ last.err # ErrSave

\* saveLocked runs when the closure has returned nil; it succeeds or fails
SaveOutcomes(r) == IF r.err = ErrNone THEN BOOLEAN ELSE {TRUE}

\* One call of a Store operation: the board becomes the one the operation
\* leaves in memory, and last records the call, its arguments and its error.
Return(op, args, r) ==
  \E saveOk \in SaveOutcomes(r) :
    /\ state' = withWrite(r, saveOk).state
    /\ last' = [op |-> op, args |-> args, err |-> withWrite(r, saveOk).err,
                changed |-> withWrite(r, saveOk).state # state,
                entity |-> IF withWrite(r, saveOk).err = ErrNone
                             THEN Entity(op, args, state, r) ELSE ZeroEntity(op)]
    /\ calls' = calls + 1
    /\ fs' = IF r.err = ErrNone
               THEN saveLocked(fs, CanonicalPath, withWrite(r, saveOk).state, saveOk)
               ELSE fs
    /\ UNCHANGED <<mu, job, proc, process>>

CreateTask ==
  /\ Running
  /\ \E req \in CreateTaskRequests(BoardCategoryIDs(state)) :
       Return("CreateTask", <<req>>, doCreateTask(state, req, NewID(TaskIDsOf(state))))

UpdateTask ==
  /\ Running
  /\ \E call \in (TaskIDsOf(state) \X Patches) \cup {<<"tx", AnyPatch>>} :
       Return("UpdateTask", call, doUpdateTask(state, call[1], call[2]))

MoveTask ==
  /\ Running
  /\ \E call \in (TaskIDsOf(state) \X MoveTaskRequests(BoardCategoryIDs(state)))
                  \cup {<<"tx", AnyMove>>} :
       Return("MoveTask", call, doMoveTask(state, call[1], call[2]))

DeleteTask ==
  /\ Running
  /\ \E id \in TaskIDsOf(state) \cup {"tx"} :
       Return("DeleteTask", <<id>>, doDeleteTask(state, id))

RenameCategory ==
  /\ Running
  /\ \E id \in CategoryIDInputs(state), name \in NameInputs :
       Return("RenameCategory", <<id, name>>, doRenameCategory(state, id, name))

CreateCategory ==
  /\ Running
  /\ \E name \in NameInputs :
       Return("CreateCategory", <<name>>,
              doCreateCategory(state, name, NewID(CategoryIDsOf(state))))

MoveCategory ==
  /\ Running
  /\ \E id \in CategoryIDInputs(state), dest \in MoveCategoryRequests :
       Return("MoveCategory", <<id, dest>>, doMoveCategory(state, id, dest))

ReorderCategoryTasks ==
  /\ Running
  /\ \E id \in CategoryIDInputs(state) :
       \E order \in Orders([i \in DOMAIN TasksOfCategory(state, id) |->
                               TasksOfCategory(state, id)[i].ID]) :
         Return("ReorderCategoryTasks", <<id, order>>,
                doReorderCategoryTasks(state, id, order))

SetFocused ==
  /\ Running
  /\ \E taskID \in TaskIDsOf(state) \cup {"tx", ""} :
       Return("SetFocused", <<taskID>>, doSetFocused(state, taskID))

----------------------------------------------------------------------------
(* The boards a run starts from: data files NewStore loads.  Each one      *)
(* satisfies the rules of the board (unique IDs and names, column capacity,*)
(* category ceiling, one urgent task per category, one focused task on the *)
(* board, none outside it)                                                 *)

StoredTask(id, size, urgent, focused, sourceID, source) ==
  [ID |-> id, Name |-> "a", State |-> "todo", Size |-> size, Urgent |-> urgent,
   Focused |-> focused, SourceID |-> sourceID, Source |-> source]

StoredCategory(id, name, tasks) == [ID |-> id, Name |-> name, Tasks |-> tasks]

\* a board in use: two columns, an archived task and a parked category
WorkBoard ==
  [Categories |->
     <<StoredCategory("c1", <<"A">>,
         <<StoredTask("t1", 3, TRUE, FALSE, "", <<>>),
           StoredTask("t2", 1, FALSE, TRUE, "", <<>>)>>),
       StoredCategory("c2", <<"a">>,
         <<StoredTask("t3", 3, FALSE, FALSE, "", <<>>)>>)>>,
   Backburner |-> <<>>,
   Archives |-> <<StoredTask("t4", 3, FALSE, FALSE, "c1", <<"A">>)>>,
   CategoryBackburner |-> <<StoredCategory("c3", <<"B">>, <<>>)>>,
   CategoryArchives |-> <<>>]

\* the board of TestMoveCategoryRespectsLimit: CategoryLimit empty columns and
\* one parked category (one-letter names stand for Alpha .. Zeta)
FullBoard ==
  [Categories |->
     <<StoredCategory("c1", <<"A">>, <<>>), StoredCategory("c2", <<"B">>, <<>>),
       StoredCategory("c3", <<"C">>, <<>>), StoredCategory("c4", <<"D">>, <<>>),
       StoredCategory("c5", <<"E">>, <<>>)>>,
   Backburner |-> <<>>,
   Archives |-> <<>>,
   CategoryBackburner |-> <<StoredCategory("c6", <<"Z">>, <<>>)>>,
   CategoryArchives |-> <<>>]

\* the board of TestMoveCategoryCapacityCheck: four empty columns and a parked
\* category whose two tasks of size 3 exceed ColumnCapacity
OverloadedBoard ==
  [Categories |->
     <<StoredCategory("c1", <<"A">>, <<>>), StoredCategory("c2", <<"B">>, <<>>),
       StoredCategory("c3", <<"C">>, <<>>), StoredCategory("c4", <<"D">>, <<>>)>>,
   Backburner |-> <<>>,
   Archives |-> <<>>,
   CategoryBackburner |->
     <<StoredCategory("c5", <<"O">>,
         <<StoredTask("t1", 3, FALSE, FALSE, "", <<>>),
           StoredTask("t2", 3, FALSE, FALSE, "", <<>>)>>)>>,
   CategoryArchives |-> <<>>]

InitialBoards == {EmptyBoard, WorkBoard, FullBoard, OverloadedBoard}

NoCall == [op |-> "", args |-> <<>>, err |-> ErrNone, changed |-> TRUE, entity |-> ZeroTask]

Callers == {"A", "B"}

\* mu when no one holds the lock; NewStore, which saves the seed board before
\* any caller exists
Free == ""
Boot == "NewStore"

NoRequest == [op |-> "", args |-> <<>>]
IdleJob == [pc |-> "none", before |-> EmptyBoard, call |-> NoRequest]
IdleProc == [pc |-> "idle", err |-> ErrNone, snapshot |-> ZeroBoardState]

\* the process is up with the board of its data file in memory
Init ==
  /\ state \in InitialBoards
  /\ last = NoCall
  /\ calls = 0
  /\ fs = [EmptyDir EXCEPT ![CanonicalPath] = File(MarshalIndent(state))]
  /\ mu = Free
  /\ job = IdleJob
  /\ proc = [c \in Callers |-> IdleProc]
  /\ process = [status |-> "up", starts |-> 1]

Next ==
  \/ CreateTask
  \/ UpdateTask
  \/ MoveTask
  \/ DeleteTask
  \/ RenameCategory
  \/ CreateCategory
  \/ MoveCategory
  \/ ReorderCategoryTasks
  \/ SetFocused

Spec == Init /\ [][Next]_vars

----------------------------------------------------------------------------
(* withWrite and saveLocked step by step.  A caller asks for the lock, the  *)
(* holder runs its closure and the statements of saveLocked one at a time,  *)
(* releases the lock and only then returns to its caller.  The process can  *)
(* stop at any step (the memory is lost, the files stay) and NewStore       *)
(* starts it again from the data file.                                      *)
(* A closure is two steps, with the board as MoveTask and MoveCategory      *)
(* have it between taking out and placing; GetState reads under the read    *)
(* lock.                                                                    *)

\* the process is started MaxStarts times at most
MaxStarts == 2

\* the board NewStore seeds when there is no data file: five columns, thirteen
\* tasks, each with an ID of NewID() (s1 .. s13, k1 .. k5 here)
SeedTask(id, st, size) ==
  [ID |-> id, Name |-> "a", State |-> st, Size |-> size, Urgent |-> FALSE,
   Focused |-> FALSE, SourceID |-> "", Source |-> <<>>]

seedBoard ==
  [Categories |->
     <<StoredCategory("k1", <<"B">>,
         <<SeedTask("s1", "todo", 2), SeedTask("s2", "doing", 2),
           SeedTask("s3", "todo", 1)>>),
       StoredCategory("k2", <<"P">>,
         <<SeedTask("s4", "doing", 3), SeedTask("s5", "todo", 2)>>),
       StoredCategory("k3", <<"U">>,
         <<SeedTask("s6", "doing", 2), SeedTask("s7", "todo", 1),
           SeedTask("s8", "todo", 2)>>),
       StoredCategory("k4", <<"L">>, <<SeedTask("s9", "todo", 5)>>),
       StoredCategory("k5", <<"S">>,
         <<SeedTask("s10", "doing", 2), SeedTask("s11", "todo", 1),
           SeedTask("s12", "done", 1), SeedTask("s13", "todo", 1)>>)>>,
   Backburner |-> <<>>,
   Archives |-> <<>>,
   CategoryBackburner |-> <<>>,
   CategoryArchives |-> <<>>]

\* loadOrSeed that seeds whatever the data file holds
seedAlways(dir, path) == [err |-> ErrNone, state |-> seedBoard, save |-> TRUE]

\* loadOrSeed: no file, or an empty one, gives the seed board, which is saved;
\* otherwise the document is decoded
loadOrSeed(dir, path) ==
  IF ~dir[path].exists \/ Len(dir[path].data) = 0
    THEN [err |-> ErrNone, state |-> seedBoard, save |-> TRUE]
  ELSE IF Unmarshal(dir[path].data).err # ErrNone
    THEN [err |-> ErrDecode, state |-> EmptyBoard, save |-> FALSE]
  ELSE [err |-> ErrNone, state |-> normalizeBoardState(Unmarshal(dir[path].data).state),
        save |-> FALSE]

\* withWrite that puts the board back when the save fails
rolledBack(before, after) == before

\* withWrite returns the error of saveLocked and leaves s.state as the closure
\* made it
afterFailedSave(before, after) == after

\* the calls of the step-by-step runs: each operation once, on the first task
\* and the first column of the board, and calls that fail
FirstTaskID(st) == IF AllTasks(st) = <<>> THEN "tx" ELSE AllTasks(st)[1].ID
FirstCategoryID(st) == IF st.Categories = <<>> THEN "cx" ELSE st.Categories[1].ID
Reversed(order) == [i \in DOMAIN order |-> order[Len(order) + 1 - i]]

SaveCalls(st) ==
  {[op |-> "CreateTask",
    args |-> <<[Location |-> LocationBackburner, CategoryID |-> "", Position |-> <<>>,
                Task |-> NewTask("", 1, FALSE, FALSE)]>>],
   [op |-> "UpdateTask", args |-> <<FirstTaskID(st), [NoPatch EXCEPT !.Name = <<"b">>]>>],
   [op |-> "UpdateTask",
    args |-> <<FirstTaskID(st), [NoPatch EXCEPT !.State = <<"done">>, !.Size = <<6>>]>>],
   [op |-> "MoveTask", args |-> <<FirstTaskID(st), AnyMove>>],
   [op |-> "DeleteTask", args |-> <<FirstTaskID(st)>>],
   [op |-> "RenameCategory", args |-> <<FirstCategoryID(st), <<"b">>>>],
   [op |-> "CreateCategory", args |-> <<<<"b">>>>],
   [op |-> "MoveCategory",
    args |-> <<FirstCategoryID(st), [Location |-> LocationBackburner, Position |-> <<>>]>>],
   [op |-> "ReorderCategoryTasks",
    args |-> <<FirstCategoryID(st),
               Reversed([i \in DOMAIN TasksOfCategory(st, FirstCategoryID(st)) |->
                           TasksOfCategory(st, FirstCategoryID(st))[i].ID])>>],
   [op |-> "SetFocused", args |-> <<FirstTaskID(st)>>]}

\* the closure each operation passes to withWrite
Closure(st, call) ==
  CASE call.op = "CreateTask" ->
         doCreateTask(st, call.args[1], NewID(TaskIDsOf(st)))
    [] call.op = "UpdateTask" -> doUpdateTask(st, call.args[1], call.args[2])
    [] call.op = "MoveTask" -> doMoveTask(st, call.args[1], call.args[2])
    [] call.op = "DeleteTask" -> doDeleteTask(st, call.args[1])
    [] call.op = "RenameCategory" -> doRenameCategory(st, call.args[1], call.args[2])
    [] call.op = "CreateCategory" ->
         doCreateCategory(st, call.args[1], NewID(CategoryIDsOf(st)))
    [] call.op = "MoveCategory" -> doMoveCategory(st, call.args[1], call.args[2])
    [] call.op = "ReorderCategoryTasks" ->
         doReorderCategoryTasks(st, call.args[1], call.args[2])
    [] call.op = "SetFocused" -> doSetFocused(st, call.args[1])

SaveSteps == {"createTemp", "write", "sync", "close", "rename"}

tmpPath == CreateTemp(CanonicalPath)

\* NewStore: the board is loaded, or seeded and then saved
NewStore ==
  /\ process.status = "down"
  /\ process.starts < MaxStarts
  /\ LET l == loadOrSeed(fs, CanonicalPath) IN
       /\ state' = l.state
       /\ process' = [status |-> IF l.err # ErrNone THEN "down"
                                 ELSE IF l.save THEN "boot" ELSE "up",
                      starts |-> process.starts + 1]
       /\ mu' = IF l.save THEN Boot ELSE Free
       /\ job' = IF l.save THEN [IdleJob EXCEPT !.pc = "createTemp"] ELSE IdleJob
  /\ UNCHANGED <<last, calls, fs, proc>>

\* a caller calls an operation of the Store
Call(c) ==
  /\ process.status = "up"
  /\ calls < MaxCalls
  /\ proc[c].pc = "idle"
  /\ proc' = [proc EXCEPT ![c].pc = "waiting"]
  /\ calls' = calls + 1
  /\ UNCHANGED <<state, last, fs, mu, job, process>>

\* a caller calls GetState
Ask(c) ==
  /\ process.status = "up"
  /\ calls < MaxCalls
  /\ proc[c].pc = "idle"
  /\ proc' = [proc EXCEPT ![c].pc = "asking"]
  /\ calls' = calls + 1
  /\ UNCHANGED <<state, last, fs, mu, job, process>>

\* a write lock that is granted while the lock is held
LockUnguarded(c) ==
  /\ proc[c].pc = "waiting"
  /\ mu' = c
  /\ job' = [pc |-> "closure", before |-> state, call |-> NoRequest]
  /\ proc' = [proc EXCEPT ![c].pc = "holding"]
  /\ UNCHANGED <<state, last, calls, fs, process>>

\* s.mu.Lock(): granted when no writer and no reader holds the lock
Lock(c) ==
  /\ proc[c].pc = "waiting"
  /\ mu = Free
  /\ \A d \in Callers : proc[d].pc # "reading"
  /\ mu' = c
  /\ job' = [pc |-> "closure", before |-> state, call |-> NoRequest]
  /\ proc' = [proc EXCEPT ![c].pc = "holding"]
  /\ UNCHANGED <<state, last, calls, fs, process>>

\* a read lock that is granted while a writer holds the lock
RLockUnguarded(c) ==
  /\ proc[c].pc = "asking"
  /\ proc' = [proc EXCEPT ![c].pc = "reading"]
  /\ UNCHANGED <<state, last, calls, fs, mu, job, process>>

\* s.mu.RLock(): granted when no writer holds the lock
RLock(c) ==
  /\ proc[c].pc = "asking"
  /\ mu = Free
  /\ proc' = [proc EXCEPT ![c].pc = "reading"]
  /\ UNCHANGED <<state, last, calls, fs, mu, job, process>>

\* return s.state.Clone(), and the deferred s.mu.RUnlock()
Read(c) ==
  /\ proc[c].pc = "reading"
  /\ proc' = [proc EXCEPT ![c] = [pc |-> "read", err |-> ErrNone,
                                  snapshot |-> GetState(state)]]
  /\ UNCHANGED <<state, last, calls, fs, mu, job, process>>

\* the board in the middle of a closure: MoveTask and MoveCategory have taken
\* the task or the category out of its container and not yet placed it
Midway(st, call) ==
  CASE call.op = "MoveTask" -> removeTask(st, call.args[1]).state
    [] call.op = "MoveCategory" ->
         IF ValidateMoveCategory(NormalizeCategoryLocation(call.args[2])) # ErrNone
           THEN st
           ELSE removeCategory(st, call.args[1]).state
    [] OTHER -> st

\* lockFn(&s.state) begins: the closure of the call works on s.state in place
BeginClosure ==
  /\ job.pc = "closure"
  /\ \E call \in SaveCalls(state) :
       /\ state' = Midway(state, call)
       /\ job' = [job EXCEPT !.pc = "midway", !.call = call]
  /\ UNCHANGED <<last, calls, fs, mu, proc, process>>

\* lockFn(&s.state) returns: on an error withWrite returns it with
\* BoardState{}
RunClosure ==
  /\ job.pc = "midway"
  /\ state' = Closure(job.before, job.call).state
  /\ IF Closure(job.before, job.call).err # ErrNone
       THEN /\ job' = [job EXCEPT !.pc = "unlock"]
            /\ proc' = [proc EXCEPT ![mu].err = Closure(job.before, job.call).err,
                                    ![mu].snapshot = ZeroBoardState]
       ELSE /\ job' = [job EXCEPT !.pc = "createTemp"]
            /\ proc' = proc
  /\ UNCHANGED <<last, calls, fs, mu, process>>

\* os.CreateTemp
CreateTempFile ==
  /\ job.pc = "createTemp"
  /\ fs' = createFile(fs, tmpPath)
  /\ job' = [job EXCEPT !.pc = "write"]
  /\ UNCHANGED <<state, last, calls, mu, proc, process>>

\* tmpFile.Write(data), one piece of the document at a time
Write ==
  /\ job.pc = "write"
  /\ fs' = writeFile(fs, tmpPath, MarshalIndent(state), Len(fs[tmpPath].data) + 1)
  /\ job' = [job EXCEPT !.pc = IF Len(fs[tmpPath].data) + 1 = 3 THEN "sync" ELSE "write"]
  /\ UNCHANGED <<state, last, calls, mu, proc, process>>

\* tmpFile.Sync()
Sync ==
  /\ job.pc = "sync"
  /\ job' = [job EXCEPT !.pc = "close"]
  /\ UNCHANGED <<state, last, calls, fs, mu, proc, process>>

\* tmpFile.Close()
Close ==
  /\ job.pc = "close"
  /\ job' = [job EXCEPT !.pc = "rename"]
  /\ UNCHANGED <<state, last, calls, fs, mu, proc, process>>

\* what follows saveLocked: NewStore returns the Store; withWrite evaluates
\* s.state.Clone() for its caller
Saved ==
  IF mu = Boot
    THEN /\ process' = [process EXCEPT !.status = "up"]
         /\ mu' = Free
         /\ job' = IdleJob
         /\ proc' = proc
    ELSE /\ job' = [job EXCEPT !.pc = "unlock"]
         /\ proc' = [proc EXCEPT ![mu].err = ErrNone, ![mu].snapshot = Clone(state)]
         /\ UNCHANGED <<mu, process>>

\* os.Rename(tmpPath, s.path)
Rename ==
  /\ job.pc = "rename"
  /\ fs' = renameFile(fs, tmpPath, CanonicalPath)
  /\ Saved
  /\ UNCHANGED <<state, last, calls>>

\* a statement of saveLocked fails: the temp file, if there is one, is
\* removed; NewStore returns the error and the program ends, withWrite returns
\* it with BoardState{}
SaveFails ==
  /\ job.pc \in SaveSteps
  /\ fs' = IF job.pc = "createTemp" THEN fs ELSE removeFile(fs, tmpPath)
  /\ IF mu = Boot
       THEN /\ process' = [process EXCEPT !.status = "down"]
            /\ state' = EmptyBoard
            /\ mu' = Free
            /\ job' = IdleJob
            /\ proc' = proc
       ELSE /\ state' = afterFailedSave(job.before, state)
            /\ job' = [job EXCEPT !.pc = "unlock"]
            /\ proc' = [proc EXCEPT ![mu].err = ErrSave, ![mu].snapshot = ZeroBoardState]
            /\ UNCHANGED <<mu, process>>
  /\ UNCHANGED <<last, calls>>

\* an unlock written at the end of withWrite instead of a deferred one: the
\* paths that return an error do not reach it
UnlockAtEnd ==
  /\ job.pc = "unlock"
  /\ proc[mu].err = ErrNone
  /\ proc' = [proc EXCEPT ![mu].pc = "returned"]
  /\ mu' = Free
  /\ job' = IdleJob
  /\ UNCHANGED <<state, last, calls, fs, process>>

\* the deferred s.mu.Unlock()
Unlock ==
  /\ job.pc = "unlock"
  /\ proc' = [proc EXCEPT ![mu].pc = "returned"]
  /\ mu' = Free
  /\ job' = IdleJob
  /\ UNCHANGED <<state, last, calls, fs, process>>

\* withWrite has returned: the caller has the error and the snapshot
Deliver(c) ==
  /\ proc[c].pc \in {"returned", "read"}
  /\ proc' = [proc EXCEPT ![c] = IdleProc]
  /\ UNCHANGED <<state, last, calls, fs, mu, job, process>>

\* the process stops: memory, lock and callers are gone, the files stay
Crash ==
  /\ process.status \in {"boot", "up"}
  /\ process' = [process EXCEPT !.status = "down"]
  /\ state' = EmptyBoard
  /\ mu' = Free
  /\ job' = IdleJob
  /\ proc' = [c \in Callers |-> IdleProc]
  /\ UNCHANGED <<last, calls, fs>>

Calling == \E c \in Callers : Call(c)
Locking == \E c \in Callers : Lock(c)
Delivering == \E c \in Callers : Deliver(c)
Asking == \E c \in Callers : Ask(c)
RLocking == \E c \in Callers : RLock(c)
Reading == \E c \in Callers : Read(c)

\* the process is down; there is no data file, or one a Store has saved
SaveInit ==
  /\ state = EmptyBoard
  /\ last = NoCall
  /\ calls = 0
  /\ fs \in {[EmptyDir EXCEPT ![CanonicalPath] = f] :
               f \in {NoFile, File(MarshalIndent(WorkBoard))}}
  /\ mu = Free
  /\ job = IdleJob
  /\ proc = [c \in Callers |-> IdleProc]
  /\ process = [status |-> "down", starts |-> 0]

SaveNext ==
  \/ NewStore
  \/ Calling
  \/ Locking
  \/ Asking
  \/ RLocking
  \/ Reading
  \/ BeginClosure
  \/ RunClosure
  \/ CreateTempFile
  \/ Write
  \/ Sync
  \/ Close
  \/ Rename
  \/ SaveFails
  \/ Unlock
  \/ Delivering
  \/ Crash

SaveSpec == SaveInit /\ [][SaveNext]_vars

\* Scheduling, while the process is up on a data file that holds the empty
\* board, so that calls are rejected until a task or category is created.  A
\* goroutine that can take its next statement takes it: the holder of the
\* write lock its closure, the statements of saveLocked (each succeeds or
\* fails) and the deferred unlock; a caller the lock it waits for, once
\* sync.RWMutex can grant it, and the read of GetState.  Nothing obliges a
\* caller to call.
SaveStep == CreateTempFile \/ Write \/ Sync \/ Close \/ Rename \/ SaveFails

HolderStep == BeginClosure \/ RunClosure \/ SaveStep \/ Unlock

CallerStep(c) == Lock(c) \/ RLock(c) \/ Read(c)

Fairness ==
  /\ \A c \in Callers : WF_vars(CallerStep(c))
  /\ WF_vars(HolderStep)

LiveInit ==
  /\ state = EmptyBoard
  /\ last = NoCall
  /\ calls = 0
  /\ fs = [EmptyDir EXCEPT ![CanonicalPath] = File(MarshalIndent(EmptyBoard))]
  /\ mu = Free
  /\ job = IdleJob
  /\ proc = [c \in Callers |-> IdleProc]
  /\ process = [status |-> "up", starts |-> 1]

LiveNext ==
  \/ Calling
  \/ Locking
  \/ Asking
  \/ RLocking
  \/ Reading
  \/ HolderStep
  \/ Delivering

LiveSpec == LiveInit /\ [][LiveNext]_vars /\ Fairness

\* the data files a first start can meet: none, an empty one, a document cut
\* short, the document of a board, a document that names the columns only,
\* and a document that names no container
StartFiles ==
  {NoFile,
   File(<<>>),
   File(SubSeq(MarshalIndent(WorkBoard), 1, 2)),
   File(MarshalIndent(WorkBoard)),
   File(<<"{", [Categories |-> WorkBoard.Categories], "}">>),
   File(<<"{", <<>>, "}">>)}

StartInit ==
  /\ state = EmptyBoard
  /\ last = NoCall
  /\ calls = 0
  /\ fs \in {[EmptyDir EXCEPT ![CanonicalPath] = f] : f \in StartFiles}
  /\ mu = Free
  /\ job = IdleJob
  /\ proc = [c \in Callers |-> IdleProc]
  /\ process = [status |-> "down", starts |-> 0]

StartSpec == StartInit /\ [][SaveNext]_vars

----------------------------------------------------------------------------
(* The operations that insert at a position, called with every kind of      *)
(* position: none, negative, 0, inside, and past the end.                   *)

Positions == {<<>>, <<-1>>, <<0>>, <<1>>, <<9>>}

CreateTaskAt ==
  /\ Running
  /\ \E c \in BoardCategoryIDs(state), p \in Positions :
       LET req == [Location |-> LocationCategory, CategoryID |-> c, Position |-> p,
                   Task |-> NewTask("", 1, FALSE, FALSE)]
       IN Return("CreateTask", <<req>>, doCreateTask(state, req, NewID(TaskIDsOf(state))))

MoveTaskAt ==
  /\ Running
  /\ \E id \in TaskIDsOf(state), c \in BoardCategoryIDs(state), p \in Positions :
       LET dest == [Location |-> LocationCategory, CategoryID |-> c, Position |-> p,
                    SourceID |-> "", Source |-> <<>>]
       IN Return("MoveTask", <<id, dest>>, doMoveTask(state, id, dest))

MoveCategoryAt ==
  /\ Running
  /\ \E id \in CategoryIDInputs(state), p \in Positions :
       LET dest == [Location |-> LocationCategoryBoard, Position |-> p]
       IN Return("MoveCategory", <<id, dest>>, doMoveCategory(state, id, dest))

PositionNext ==
  \/ CreateTaskAt
  \/ MoveTaskAt
  \/ MoveCategoryAt

PositionSpec == Init /\ [][PositionNext]_vars

----------------------------------------------------------------------------
(* Vocabulary of the properties                                            *)

RECURSIVE SumSizes(_)
SumSizes(tasks) == IF tasks = <<>> THEN 0 ELSE Head(tasks).Size + SumSizes(Tail(tasks))

\* the tasks that are not in a column of the board
OffBoardTasks(st) ==
  st.Backburner \o st.Archives \o TasksIn(st.CategoryBackburner)
    \o TasksIn(st.CategoryArchives)

FocusedTasks(st) == {i \in DOMAIN AllTasks(st) : AllTasks(st)[i].Focused}

UrgentTasks(cat) == {j \in DOMAIN cat.Tasks : cat.Tasks[j].Urgent}

Parked(st, id) ==
  HasCategory(st.CategoryBackburner, id) \/ HasCategory(st.CategoryArchives, id)

NameUsed(st, name) == \E c \in Range(AllCategories(st)) : c.Name = name

NameUsedByOther(st, name, id) ==
  \E c \in Range(AllCategories(st)) : c.Name = name /\ c.ID # id

AtCeiling(st) == Len(st.Categories) >= CategoryLimit

\* the errors MoveTask returns for a task it has found
MoveRejections ==
  {ErrCapacityExceeded, ErrCategoryNotFound, ErrInvalidLocation, ErrInvalidRequest}

UpdateRejections == {ErrInvalidState, ErrInvalidTaskSize, ErrCapacityExceeded}

\* the outcomes of a call whose closure returned nil: saved, or not
Applied == {ErrNone, ErrSave}

\* how many tasks of the board carry this ID
CountID(st, id) == Cardinality({i \in DOMAIN AllTasks(st) : AllTasks(st)[i].ID = id})

\* how many times x occurs in the sequence s
Occurrences(s, x) == Cardinality({i \in DOMAIN s : s[i] = x})

IDsOf(tasks) == [i \in DOMAIN tasks |-> tasks[i].ID]

\* the file at the data path
Canonical(dir) == dir[CanonicalPath]

\* the file holds the whole document of a board
Whole(f) == f.exists /\ Unmarshal(f.data).err = ErrNone

\* the board of a whole file
BoardIn(f) == Unmarshal(f.data).state

\* the tasks of Backburner and Archives
ParkedTasks(st) == st.Backburner \o st.Archives

\* the IDs of the urgent tasks of a category
UrgentIDs(cat) == {cat.Tasks[j].ID : j \in UrgentTasks(cat)}

\* the operations that look a task up by its ID
TaskOperations == {"UpdateTask", "MoveTask", "DeleteTask", "SetFocused"}

\* the sequence s without its elements of this ID
WithoutID(s, id) == SelectSeq(s, LAMBDA e : e.ID # id)

\* a task with its two flags put aside
Unflagged(t) == [t EXCEPT !.Urgent = FALSE, !.Focused = FALSE]

\* new is old with one element of this ID put in at the index the position
\* asks for: the position when it is within 0..Len(old), else Len(old);
\* same(a, b) tells when an element is the one it was
InsertedAt(old, new, id, position, same(_, _)) ==
  LET at == IF position # <<>> /\ position[1] >= 0 /\ position[1] <= Len(old)
              THEN position[1] ELSE Len(old)
  IN /\ Len(new) = Len(old) + 1
     /\ new[at + 1].ID = id
     /\ \A i \in 1..at : same(new[i], old[i])
     /\ \A i \in (at + 1)..Len(old) : same(new[i + 1], old[i])

SameTask(a, b) == Unflagged(a) = Unflagged(b)
SameCategory(a, b) == a = b

\* what the containers of a board value hold; one that is absent holds nothing
Containers(b) == [k \in BoardFields |-> IF k \in DOMAIN b THEN b[k] ELSE <<>>]

CreateRejections ==
  {ErrCapacityExceeded, ErrCategoryNotFound, ErrInvalidTaskSize, ErrInvalidState,
   ErrInvalidLocation, ErrInvalidRequest}

\* the category with this ID, wherever it is
CategoryOf(st, id) == CHOOSE c \in Range(AllCategories(st)) : c.ID = id

\* the destination of a request that names the board or no location
ToBoard(dest) == dest.Location \in {"", LocationCategoryBoard}
ToColumn(req) == req.Location \in {"", LocationCategory}

----------------------------------------------------------------------------
(* Properties                                                              *)

\* C1 (column capacity): the board an operation returns without an error has,
\* in every column, task sizes that sum to at most ColumnCapacity.
ColumnCapacityHolds ==
  (last.op # "" /\ last.err = ErrNone) =>
    \A i \in DOMAIN state.Categories :
      SumSizes(state.Categories[i].Tasks) <= ColumnCapacity

\* C2 (single focus): at most one task of the five containers is focused.
SingleFocus == Cardinality(FocusedTasks(state)) <= 1

\* C3 (no focus off the board): no task of Backburner, of Archives or of a parked
\* category is focused.
NoFocusOffBoard ==
  \A i \in DOMAIN OffBoardTasks(state) : ~OffBoardTasks(state)[i].Focused

\* C4 (single urgent per category): every category, on the board or parked,
\* holds at most one urgent task.
SingleUrgentPerCategory ==
  \A c \in Range(AllCategories(state)) : Cardinality(UrgentTasks(c)) <= 1

\* C5 (category ceiling), as stated: the board never holds more than
\* CategoryLimit columns, and at the ceiling every CreateCategory and every
\* MoveCategory of a parked category to the board fails with CategoryLimit and
\* leaves the board as it was.
CeilingRefusesEveryCreate ==
  /\ [](Len(state.Categories) <= CategoryLimit)
  /\ [][/\ (last'.op = "CreateCategory" /\ AtCeiling(state)) =>
             (last'.err = ErrCategoryLimit /\ state' = state)
        /\ (/\ last'.op = "MoveCategory"
            /\ AtCeiling(state)
            /\ Parked(state, last'.args[1])
            /\ NormalizeCategoryLocation(last'.args[2]).Location = LocationCategoryBoard) =>
             (last'.err = ErrCategoryLimit /\ state' = state)]_vars

\* C5 (category ceiling), amended: the board never holds more than CategoryLimit
\* columns; at the ceiling CreateCategory leaves the board as it was and fails
\* with InvalidRequest for a name that is empty once trimmed, with
\* DuplicateCategory for a name a category uses, and with CategoryLimit for any
\* other name; MoveCategory of a parked category to the board fails with
\* CategoryLimit and leaves the board as it was.
CategoryCeiling ==
  /\ [](Len(state.Categories) <= CategoryLimit)
  /\ [][/\ (last'.op = "CreateCategory" /\ AtCeiling(state)) =>
             /\ state' = state
             /\ last'.err =
                  IF TrimSpace(last'.args[1]) = <<>> THEN ErrInvalidRequest
                  ELSE IF NameUsed(state, TrimSpace(last'.args[1]))
                    THEN ErrDuplicateCategory
                  ELSE ErrCategoryLimit
        /\ (/\ last'.op = "MoveCategory"
            /\ AtCeiling(state)
            /\ Parked(state, last'.args[1])
            /\ NormalizeCategoryLocation(last'.args[2]).Location = LocationCategoryBoard) =>
             (last'.err = ErrCategoryLimit /\ state' = state)]_vars

\* a CreateCategory with a new name has been refused at the ceiling
CategoryCeilingReached ==
  /\ last.op = "CreateCategory"
  /\ last.err = ErrCategoryLimit
  /\ Len(state.Categories) = CategoryLimit
  /\ ~NameUsed(state, TrimSpace(last.args[1]))

\* C6 (task ID uniqueness): no two tasks of the five containers share an ID.
UniqueTaskIDs ==
  \A i, j \in DOMAIN AllTasks(state) :
    AllTasks(state)[i].ID = AllTasks(state)[j].ID => i = j

\* C7 (category name uniqueness): no two categories of the three containers have
\* the same name, names that differ in case being different; CreateCategory
\* with a name (trimmed) that a category uses, and RenameCategory with a name
\* (trimmed) that a category with another ID uses, fail with DuplicateCategory
\* and leave the board as it was.
UniqueCategoryNames ==
  /\ [](\A i, j \in DOMAIN AllCategories(state) :
          AllCategories(state)[i].Name = AllCategories(state)[j].Name => i = j)
  /\ [][/\ (/\ last'.op = "CreateCategory"
            /\ NameUsed(state, TrimSpace(last'.args[1]))) =>
             (last'.err = ErrDuplicateCategory /\ state' = state)
        /\ (/\ last'.op = "RenameCategory"
            /\ NameUsedByOther(state, TrimSpace(last'.args[2]), last'.args[1])) =>
             (last'.err = ErrDuplicateCategory /\ state' = state)]_vars

\* a RenameCategory to the name of a parked category has been refused
DuplicateNameRefused ==
  /\ last.op = "RenameCategory"
  /\ last.err = ErrDuplicateCategory
  /\ \E c \in Range(state.CategoryBackburner \o state.CategoryArchives) :
       c.Name = TrimSpace(last.args[2]) /\ c.ID # last.args[1]

\* C8 (move rollback address): after a MoveTask that found the task and failed,
\* the task is found at the location it had (container, category index, task
\* index), in the category with the same ID, with the field values it had.
MoveRollbackAddress ==
  [][(/\ last'.op = "MoveTask"
      /\ last'.err \in MoveRejections
      /\ findTask(state, last'.args[1]).err = ErrNone) =>
       LET loc == findTask(state, last'.args[1]).loc IN
       /\ findTask(state', last'.args[1]) = findTask(state, last'.args[1])
       /\ TaskAt(state', loc) = TaskAt(state, loc)
       /\ loc.Kind = LocationCategory =>
            At(state'.Categories, loc.CategoryIndex).ID
              = At(state.Categories, loc.CategoryIndex).ID]_vars

\* a column has refused, for its capacity, a task that was not the last of its
\* own column
MoveRolledBack ==
  /\ last.op = "MoveTask"
  /\ last.err = ErrCapacityExceeded
  /\ findTask(state, last.args[1]).err = ErrNone
  /\ LET loc == findTask(state, last.args[1]).loc IN
       /\ loc.Kind = LocationCategory
       /\ loc.TaskIndex + 1 < Len(At(state.Categories, loc.CategoryIndex).Tasks)

\* C9 (MoveTask is all-or-nothing): a MoveTask that the store rejects
\* (TaskNotFound, or one of MoveRejections) leaves the whole board as it was,
\* the urgent and focused flags of the destination category included.
MoveTaskAllOrNothing ==
  [][(last'.op = "MoveTask" /\ last'.err \in MoveRejections \cup {ErrTaskNotFound}) =>
       state' = state]_vars

\* C10 (UpdateTask is all-or-nothing): an UpdateTask that returns InvalidState,
\* InvalidTaskSize or CapacityExceeded leaves the board as it was.
UpdateTaskAllOrNothing ==
  [][(last'.op = "UpdateTask" /\ last'.err \in UpdateRejections) =>
       state' = state]_vars

\* C11 (CreateTask rejection leaves no trace): a well-formed CreateTask into a
\* column whose sizes, with the new task, sum to more than ColumnCapacity
\* returns CapacityExceeded; and a CreateTask that returns CapacityExceeded,
\* CategoryNotFound, InvalidTaskSize, InvalidState, InvalidLocation or
\* InvalidRequest leaves the whole board, the order of the column included, as
\* it was.
CreateTaskLeavesNoTrace ==
  [][last'.op = "CreateTask" =>
       LET req == last'.args[1] IN
       /\ (/\ ToColumn(req)
           /\ req.Task.State \in allowedStates
           /\ req.Task.Size \in 1..5
           /\ HasCategory(state.Categories, req.CategoryID)
           /\ SumSizes(CategoryOf(state, req.CategoryID).Tasks) + req.Task.Size
                > ColumnCapacity)
            => last'.err = ErrCapacityExceeded
       /\ last'.err \in CreateRejections => state' = state]_vars

\* a CreateTask at position 0 of a column of several tasks was refused for
\* capacity
CreateTaskRefusedAtFront ==
  /\ last.op = "CreateTask"
  /\ last.err = ErrCapacityExceeded
  /\ last.args[1].Position = <<0>>
  /\ Len(CategoryOf(state, last.args[1].CategoryID).Tasks) >= 2

\* C12 (parked category capacity check): MoveCategory to the board of a parked
\* category whose task sizes sum to more than ColumnCapacity, while the board
\* holds fewer than CategoryLimit columns, returns CapacityExceeded and leaves
\* the board as it was: Categories unchanged, the category in its parked
\* container at its index with its tasks.
ParkedCategoryCapacityCheck ==
  [][(/\ last'.op = "MoveCategory"
      /\ ToBoard(last'.args[2])
      /\ Parked(state, last'.args[1])
      /\ SumSizes(CategoryOf(state, last'.args[1]).Tasks) > ColumnCapacity
      /\ Len(state.Categories) < CategoryLimit)
       => (last'.err = ErrCapacityExceeded /\ state' = state)]_vars

\* an overloaded parked category that is not the last of its container was
\* refused by the board
OverloadedCategoryRefused ==
  /\ last.op = "MoveCategory"
  /\ last.err = ErrCapacityExceeded
  /\ Len(state.CategoryBackburner) >= 2
  /\ state.CategoryBackburner[1].ID = last.args[1]

\* C13 (parking a category): a successful MoveCategory from the board to the
\* backburner or the archive takes the category out of Categories and makes it
\* the last element of the destination, with the same tasks in the same order,
\* each one unfocused and otherwise unchanged; and a successful MoveCategory of
\* a parked category to the board puts it there with its tasks as they were,
\* so that they remain unfocused.
ParkingClearsFocus ==
  [][(last'.op = "MoveCategory" /\ last'.err = ErrNone) =>
       LET id == last'.args[1]
           dest == last'.args[2]
           parkedIn == IF dest.Location = LocationBackburner
                         THEN state'.CategoryBackburner ELSE state'.CategoryArchives
           wasIn == IF dest.Location = LocationBackburner
                      THEN state.CategoryBackburner ELSE state.CategoryArchives
       IN
       /\ (HasCategory(state.Categories, id)
             /\ dest.Location \in {LocationBackburner, LocationArchive})
            => /\ ~HasCategory(state'.Categories, id)
               /\ Len(state'.Categories) = Len(state.Categories) - 1
               /\ parkedIn = Append(wasIn,
                                    [CategoryOf(state, id) EXCEPT !.Tasks = Unfocus(@)])
               /\ \A j \in DOMAIN parkedIn[Len(parkedIn)].Tasks :
                     ~parkedIn[Len(parkedIn)].Tasks[j].Focused
       /\ (Parked(state, id) /\ ToBoard(dest))
            => /\ HasCategory(state'.Categories, id)
               /\ ~Parked(state', id)
               /\ CategoryOf(state', id) = CategoryOf(state, id)]_vars

\* the first call parked column c1 of the board in use, which held the focused
\* task
FocusedColumnParked ==
  /\ calls = 1
  /\ last.op = "MoveCategory"
  /\ last.err = ErrNone
  /\ last.args[1] = "c1"
  /\ state.CategoryBackburner # <<>>
  /\ state.CategoryBackburner[Len(state.CategoryBackburner)].ID = "c1"
  /\ Len(state.CategoryBackburner[Len(state.CategoryBackburner)].Tasks) = 2

\* C14 (archive-only delete): DeleteTask(id) removes a task exactly when a task
\* with this ID is in Archives, and then Archives loses that task and nothing
\* else changes; for an ID no task carries it returns TaskNotFound; and a
\* DeleteTask that removes nothing leaves the whole board as it was.
ArchiveOnlyDelete ==
  [][last'.op = "DeleteTask" =>
       LET id == last'.args[1] IN
       /\ (last'.err \in Applied) <=> HasTask(state.Archives, id)
       /\ last'.err \in Applied =>
            \E i \in DOMAIN state.Archives :
              /\ state.Archives[i].ID = id
              /\ state' = [state EXCEPT !.Archives = RemoveAt(@, i - 1)]
       /\ id \notin TaskIDsOf(state) => last'.err = ErrTaskNotFound
       /\ last'.err \notin Applied => state' = state]_vars

\* C15 (task conservation): every task ID is carried by exactly one task of
\* the board; a CreateTask that is applied adds one task, a DeleteTask that is
\* applied removes one, and every other call, applied or refused, leaves the
\* number of tasks carrying each ID as it was.
TaskConservation ==
  /\ [](\A id \in TaskIDsOf(state) : CountID(state, id) = 1)
  /\ [][LET ids == TaskIDsOf(state) \cup TaskIDsOf(state')
             same(except, by) ==
               \A id \in ids :
                 CountID(state', id) = CountID(state, id) + (IF id = except THEN by ELSE 0)
         IN
         IF last'.op = "CreateTask" /\ last'.err \in Applied
           THEN \E n \in TaskIDsOf(state') : same(n, 1)
         ELSE IF last'.op = "DeleteTask" /\ last'.err \in Applied
           THEN \E n \in TaskIDsOf(state) : same(n, -1)
         ELSE \A id \in ids : CountID(state', id) = CountID(state, id)]_vars

\* C16 (SetFocused result): after a SetFocused(id) that returns no error, for a
\* non-empty id exactly one task of the board is focused and it carries id,
\* for the empty id no task is focused; and of two such calls in a row for
\* different tasks, the task of the first is unfocused after the second.
SetFocusedResult ==
  /\ []((last.op = "SetFocused" /\ last.err = ErrNone) =>
          IF last.args[1] = ""
            THEN FocusedTasks(state) = {}
            ELSE /\ Cardinality(FocusedTasks(state)) = 1
                 /\ \A i \in FocusedTasks(state) : AllTasks(state)[i].ID = last.args[1])
  /\ [][(/\ last.op = "SetFocused" /\ last.err = ErrNone
          /\ last'.op = "SetFocused" /\ last'.err = ErrNone
          /\ last.args[1] # last'.args[1] /\ last'.args[1] # "")
           => /\ \A i \in FocusedTasks(state') : AllTasks(state')[i].ID # last.args[1]
              /\ \E i \in FocusedTasks(state') : AllTasks(state')[i].ID = last'.args[1]]_vars

\* SetFocused("t1") took the focus from task t2, focused on the board in use
\* when the run starts
FocusMoved ==
  /\ calls = 1
  /\ last.op = "SetFocused"
  /\ last.err = ErrNone
  /\ last.args[1] = "t1"
  /\ CountID(state, "t2") = 1
  /\ \E i \in FocusedTasks(state) : AllTasks(state)[i].ID = "t1"

\* C17 (reorder): ReorderCategoryTasks(id, order) on a column of the board is
\* applied exactly when order holds every task ID of the column as many times
\* as the column does; then the column holds the same tasks, each unchanged,
\* with the IDs in the given order, and the rest of the board is unchanged;
\* otherwise the call returns InvalidRequest and the board is as it was.
ReorderResult ==
  [][(last'.op = "ReorderCategoryTasks" /\ HasCategory(state.Categories, last'.args[1])) =>
       LET id == last'.args[1]
           order == last'.args[2]
           i == findCategoryIndex(state.Categories, id) + 1
           before == state.Categories[i].Tasks
           after == state'.Categories[i].Tasks
           permutation ==
             /\ Len(order) = Len(before)
             /\ \A x \in Range(order) \cup Range(IDsOf(before)) :
                   Occurrences(order, x) = Occurrences(IDsOf(before), x)
       IN
       /\ (last'.err \in Applied) <=> permutation
       /\ last'.err \in Applied =>
            /\ IDsOf(after) = order
            /\ \A t \in Range(before) \cup Range(after) :
                  Occurrences(after, t) = Occurrences(before, t)
            /\ state' = [state EXCEPT !.Categories[i].Tasks = after]
       /\ ~permutation => (last'.err = ErrInvalidRequest /\ state' = state)]_vars

\* C18 (atomic file replacement): at every step of a save, and when the save
\* fails or the process stops at any of them, the data path holds no file (no
\* board was saved yet) or the whole document of a board; and it changes only
\* in the rename step, from the board saved before to the whole new board.
AtomicReplacement ==
  /\ [](Canonical(fs).exists => Whole(Canonical(fs)))
  /\ [][Canonical(fs') # Canonical(fs) =>
          /\ job.pc = "rename"
          /\ Canonical(fs') = File(MarshalIndent(state))]_vars

\* the process stopped while the temp file held a part of the document; the
\* data path holds the board saved before
StoppedInMidWrite ==
  /\ process.status = "down"
  /\ fs[TempPath].exists
  /\ Len(fs[TempPath].data) \in {1, 2}
  /\ Whole(Canonical(fs))

\* C19 (save failure does not roll back): when a statement of saveLocked fails
\* after the closure has changed the board, the call returns the error of the
\* save with an empty BoardState, the board in memory stays as the closure
\* left it (GetState shows it), the file at the data path is the one it was;
\* and every save that succeeds writes the board in memory, so the mutation
\* that was not saved is in the file of the next save that succeeds.
SaveFailureKeepsMutation ==
  /\ [][(job.pc \in SaveSteps /\ mu \in Callers /\ job'.pc = "unlock"
            /\ proc'[mu].err # ErrNone) =>
          /\ proc'[mu].err = ErrSave
          /\ proc'[mu].snapshot = ZeroBoardState
          /\ state' = state
          /\ Containers(GetState(state')) = state
          /\ Canonical(fs') = Canonical(fs)]_vars
  /\ [][(job.pc = "rename" /\ mu \in Callers /\ job'.pc = "unlock"
            /\ proc'[mu].err = ErrNone) =>
          /\ state' = state
          /\ BoardIn(Canonical(fs')) = state']_vars

\* a call has returned the error of its save; the board in memory holds its
\* mutation and is not the board of the file
UnsavedMutation ==
  /\ process.status = "up"
  /\ mu = Free
  /\ \E c \in Callers : proc[c].pc = "returned" /\ proc[c].err = ErrSave
  /\ Whole(Canonical(fs))
  /\ BoardIn(Canonical(fs)) # state

\* C20 as stated (save on every success): at the moment a call returns to its
\* caller without an error, the board of the file at the data path equals the
\* snapshot the caller gets, which equals the board in memory.
SavedWhenReturned ==
  [][\A c \in Callers :
       (proc[c].pc = "returned" /\ proc'[c].pc = "idle" /\ process' = process
          /\ proc[c].err = ErrNone) =>
         /\ BoardIn(Canonical(fs)) = Containers(proc[c].snapshot)
         /\ Containers(proc[c].snapshot) = state]_vars

\* C20 (save on every success, at the release of the lock): when a call that
\* succeeded releases the write lock, the board of the file at the data path
\* equals the snapshot it returns, which equals the board in memory; this
\* holds whatever the other callers do.
SavedWhenUnlocked ==
  [][(job.pc = "unlock" /\ mu \in Callers /\ mu' = Free /\ process' = process
        /\ proc[mu].err = ErrNone) =>
       /\ Whole(Canonical(fs'))
       /\ BoardIn(Canonical(fs')) = Containers(proc'[mu].snapshot)
       /\ Containers(proc'[mu].snapshot) = state']_vars

\* a call that succeeded has released the lock while the other caller waits
\* for it: the file, the snapshot and the board in memory are one board, which
\* is not the board of an empty store
SavedUnderContention ==
  \E c, d \in Callers :
    /\ c # d
    /\ proc[c].pc = "returned"
    /\ proc[c].err = ErrNone
    /\ proc[d].pc = "waiting"
    /\ mu = Free
    /\ BoardIn(Canonical(fs)) = Containers(proc[c].snapshot)
    /\ Containers(proc[c].snapshot) = state
    /\ state # EmptyBoard

\* C24 (source bookkeeping on move): a MoveTask that is applied and takes a
\* task from a column to Backburner or Archives, with no sourceId in the
\* request, stores the task last in that container with the ID and the name of
\* the column it left as SourceID and Source; a MoveTask that is applied and
\* puts a task into a column stores it with both fields empty.
SourceBookkeeping ==
  [][(last'.op = "MoveTask" /\ last'.err \in Applied) =>
       LET id == last'.args[1]
           dest == last'.args[2]
           loc == findTask(state, id).loc
           into == IF dest.Location = LocationBackburner
                     THEN state'.Backburner ELSE state'.Archives
       IN
       /\ (/\ dest.Location \in {LocationBackburner, LocationArchive}
           /\ dest.SourceID = ""
           /\ loc.Kind = LocationCategory)
            => /\ into # <<>>
               /\ into[Len(into)].ID = id
               /\ into[Len(into)].SourceID = At(state.Categories, loc.CategoryIndex).ID
               /\ into[Len(into)].Source = At(state.Categories, loc.CategoryIndex).Name
       /\ ToColumn(dest)
            => /\ HasTask(CategoryOf(state', dest.CategoryID).Tasks, id)
               /\ \A t \in Range(CategoryOf(state', dest.CategoryID).Tasks) :
                     t.ID = id => (t.SourceID = "" /\ t.Source = <<>>)]_vars

\* task t1 of column c1, named A, was moved to the backburner by a request
\* without a sourceId
SourceRecorded ==
  /\ calls = 1
  /\ last.op = "MoveTask"
  /\ last.err = ErrNone
  /\ last.args[1] = "t1"
  /\ last.args[2].SourceID = ""
  /\ state.Backburner # <<>>
  /\ state.Backburner[Len(state.Backburner)].SourceID = "c1"
  /\ state.Backburner[Len(state.Backburner)].Source = <<"A">>

\* C25 (parked tasks remember their category): a task of Backburner or
\* Archives that has a SourceID keeps its SourceID and Source through every
\* call after which it is still in Backburner or Archives.
ParkedTasksRemember ==
  [][\A t \in Range(ParkedTasks(state)), u \in Range(ParkedTasks(state')) :
       (t.SourceID # "" /\ CountID(state, t.ID) = 1 /\ CountID(state', t.ID) = 1
          /\ u.ID = t.ID)
         => (u.SourceID = t.SourceID /\ u.Source = t.Source)]_vars

\* C26 (urgent normalization): after a call that is applied and makes a task of
\* a column urgent (UpdateTask with urgent = true, CreateTask of an urgent task
\* into a column, MoveTask of an urgent task into a column), exactly one task
\* of that column is urgent, it carries the ID of the task, and in every other
\* column the urgent tasks, the moved one aside, are those that were urgent.
UrgentNormalization ==
  [][(last'.op \in {"UpdateTask", "CreateTask", "MoveTask"} /\ last'.err \in Applied) =>
       LET create == last'.op = "CreateTask"
           id == IF create THEN "" ELSE last'.args[1]
           loc == findTask(state, id).loc
           column ==
             IF create THEN findCategoryIndex(state.Categories, last'.args[1].CategoryID)
             ELSE IF last'.op = "UpdateTask" THEN loc.CategoryIndex
             ELSE findCategoryIndex(state.Categories, last'.args[2].CategoryID)
           becomesUrgent ==
             IF create
               THEN ToColumn(last'.args[1]) /\ last'.args[1].Task.Urgent
             ELSE IF last'.op = "UpdateTask"
               THEN loc.Kind = LocationCategory /\ last'.args[2].Urgent = <<TRUE>>
             ELSE ToColumn(last'.args[2]) /\ TaskAt(state, loc).Urgent
       IN
       becomesUrgent =>
         /\ Cardinality(UrgentTasks(At(state'.Categories, column))) = 1
         /\ \A j \in UrgentTasks(At(state'.Categories, column)) :
               /\ ~create => At(state'.Categories, column).Tasks[j].ID = id
               /\ create =>
                    /\ At(state'.Categories, column).Tasks[j].ID
                         \in TaskIDsOf(state') \ (TaskIDsOf(state) \ {last'.args[1].Task.ID})
         /\ \A i \in DOMAIN state.Categories :
               i # column + 1 =>
                 UrgentIDs(state'.Categories[i]) \ {id}
                   = UrgentIDs(state.Categories[i]) \ {id}]_vars

\* C27 (rename reaches every existing category): RenameCategory(id, name) with
\* a name that is not empty after trimming and that no other category uses is
\* applied for every category that exists, in Categories, CategoryBackburner or
\* CategoryArchives, and changes nothing but the name of that category; it
\* returns CategoryNotFound only when no category carries the ID.
RenameReachesEveryCategory ==
  [][last'.op = "RenameCategory" =>
       LET id == last'.args[1]
           name == TrimSpace(last'.args[2])
           renamed(cats) ==
             [i \in DOMAIN cats |->
                IF cats[i].ID = id THEN [cats[i] EXCEPT !.Name = name] ELSE cats[i]]
       IN
       /\ (name # <<>> /\ ~NameUsedByOther(state, name, id)
             /\ id \in CategoryIDsOf(state))
            => /\ last'.err \in Applied
               /\ state' = [state EXCEPT
                              !.Categories = renamed(@),
                              !.CategoryBackburner = renamed(@),
                              !.CategoryArchives = renamed(@)]
       /\ last'.err = ErrCategoryNotFound => id \notin CategoryIDsOf(state)]_vars

\* C28 (error kind of a refused delete): a DeleteTask on a task that the
\* lookup finds in a column or in Backburner returns InvalidRequest, which the
\* transport reports with status 400.
RefusedDeleteIsInvalidRequest ==
  [][(/\ last'.op = "DeleteTask"
      /\ findTask(state, last'.args[1]).err = ErrNone
      /\ findTask(state, last'.args[1]).loc.Kind # LocationArchive)
       => (last'.err = ErrInvalidRequest /\ writeDomainError(last'.err) = 400)]_vars

\* C30 (task lookup covers all containers): UpdateTask, MoveTask, DeleteTask
\* and SetFocused return TaskNotFound only for an ID that no task of the board
\* carries, the tasks of the parked categories included.
LookupCoversAllContainers ==
  [][(last'.op \in TaskOperations /\ last'.err = ErrTaskNotFound)
       => last'.args[1] \notin TaskIDsOf(state)]_vars

\* C21 (mutations are serialized): at most one caller is inside the
\* mutate-and-save section; while the Store is up the board in memory and the
\* file at the data path change only in a step of the caller inside it; and
\* when that caller leaves the section the board in memory is the board it
\* found on entering with one operation applied to it, and, the call having
\* succeeded, the file holds that board: the board and the file are those of
\* the operations taken one after the other in the order of the sections.
MutationsSerialized ==
  /\ [](/\ Cardinality({c \in Callers : proc[c].pc = "holding"}) <= 1
        /\ \A c \in Callers : proc[c].pc = "holding" => mu = c)
  /\ [][(process.status = "up" /\ process'.status = "up"
           /\ (state' # state \/ Canonical(fs') # Canonical(fs)))
          => (mu \in Callers /\ mu' = mu /\ proc[mu].pc = "holding")]_vars
  /\ [][(job.pc = "unlock" /\ mu \in Callers /\ mu' = Free /\ process' = process)
          => /\ \E call \in SaveCalls(job.before) :
                  state = Closure(job.before, call).state
             /\ proc[mu].err = ErrNone => BoardIn(Canonical(fs)) = state]_vars

\* a caller is in the middle of its save, the temp file half written, while
\* the other caller waits for the lock
SecondCallerWaits ==
  \E c, d \in Callers :
    /\ proc[c].pc = "holding"
    /\ proc[d].pc = "waiting"
    /\ job.pc = "write"
    /\ Len(fs[TempPath].data) = 2
    /\ state # job.before

\* C22 (readers see whole states only): the board a GetState returns is the
\* board in memory as it was before the mutation running at that moment, or
\* as that mutation leaves it, and the board in memory when none is running.
ReadersSeeWholeStates ==
  [][\A c \in Callers :
       (proc[c].pc = "reading" /\ proc'[c].pc = "read") =>
         Containers(proc'[c].snapshot) \in
           (IF mu \notin Callers THEN {state}
            ELSE IF job.pc = "closure" THEN {job.before}
            ELSE {job.before, Closure(job.before, job.call).state})]_vars

\* a GetState has returned the board as it was; the MoveTask of the other
\* caller, which started after it, has taken the task out of its container and
\* not yet placed it
ReadBesideMove ==
  \E c, d \in Callers :
    /\ proc[c].pc = "read"
    /\ proc[d].pc = "holding"
    /\ job.pc = "midway"
    /\ job.call.op = "MoveTask"
    /\ Containers(proc[c].snapshot) = job.before
    /\ state # job.before
    /\ state # Closure(job.before, job.call).state

\* C29 (temp file cleanup): a save that fails at the write, sync, close or
\* rename step leaves no temp file, nor does a save that succeeds; as long as
\* the process has not stopped, the directory holds a temp file only while a
\* save is between its create and its rename step.
TempFileCleanup ==
  /\ [][(job.pc \in {"write", "sync", "close", "rename"}
           /\ job'.pc \notin {"write", "sync", "close", "rename"}
           /\ process'.status # "down")
          => ~fs'[TempPath].exists]_vars
  /\ [][(job.pc \in {"write", "sync", "close", "rename"} /\ mu = Boot
           /\ job'.pc = "none" /\ fs' # fs)
          => ~fs'[TempPath].exists]_vars
  /\ []((process.starts = 1 /\ process.status \in {"boot", "up"}
           /\ job.pc \notin {"write", "sync", "close", "rename"})
          => ~fs[TempPath].exists)

\* the second save of a run has failed after the first succeeded, the lock is
\* not yet released, and the directory holds the data file only
FailedSaveCleanedUp ==
  /\ process = [status |-> "up", starts |-> 1]
  /\ calls = 2
  /\ job.pc = "unlock"
  /\ mu \in Callers
  /\ proc[mu].err = ErrSave
  /\ \E d \in Callers : proc[d].pc = "returned" /\ proc[d].err = ErrNone
  /\ ~fs[TempPath].exists
  /\ Whole(Canonical(fs))

\* C23 (startup): with no data file, or an empty one, NewStore sets the board
\* to the seed board and saves it, and the Store is up once the data path
\* holds the document of the seed board; with a data file that decodes the
\* board is what the document names, every container it does not name being
\* empty, no save is started and the file is not touched; with a data file
\* that does not decode there is no Store and the file is not touched.
Startup ==
  /\ [][process'.starts = process.starts + 1 =>
          LET f == Canonical(fs) IN
          IF ~f.exists \/ f.data = <<>>
            THEN /\ state' = seedBoard
                 /\ process'.status = "boot"
                 /\ job'.pc = "createTemp"
          ELSE IF Len(f.data) = 3 /\ f.data[1] = "{" /\ f.data[3] = "}"
            THEN /\ process'.status = "up"
                 /\ DOMAIN state' = BoardFields
                 /\ \A k \in BoardFields :
                       state'[k] = IF k \in DOMAIN f.data[2] THEN f.data[2][k] ELSE <<>>
                 /\ job' = IdleJob
                 /\ fs' = fs
          ELSE /\ process'.status = "down"
               /\ state' = EmptyBoard
               /\ job' = IdleJob
               /\ fs' = fs]_vars
  /\ [][(process.status = "boot" /\ process'.status = "up") =>
          /\ state' = seedBoard
          /\ Canonical(fs') = File(MarshalIndent(seedBoard))]_vars
  /\ [][(process.status = "boot" /\ process'.status = "down") =>
          Canonical(fs') = Canonical(fs)]_vars

\* the Store is up on the board of a document that names the columns only;
\* the other four containers are empty and the file is the one it was
LoadedPartialDocument ==
  /\ process = [status |-> "up", starts |-> 1]
  /\ calls = 0
  /\ Canonical(fs) = File(<<"{", [Categories |-> WorkBoard.Categories], "}">>)
  /\ state = [EmptyBoard EXCEPT !.Categories = WorkBoard.Categories]

\* C31 (insertion position): a CreateTask or MoveTask into a column, and a
\* MoveCategory onto the board, that is applied puts the task or category at
\* the index of the position when the position is within 0..len of the
\* sequence it is put into (the sequence without the entity that moves, which
\* for a task is the first one the lookup finds under the ID), and
\* last otherwise; the elements before that index stay where they were and
\* those from that index on are one place to the right, in their order.  The
\* urgent and focused flags of the tasks are not compared here.
InsertionPosition ==
  [][(last'.err \in Applied /\ last'.op \in {"CreateTask", "MoveTask", "MoveCategory"}) =>
       IF last'.op = "CreateTask"
         THEN LET req == last'.args[1]
                  ids == IF req.Task.ID # "" THEN {req.Task.ID}
                         ELSE TaskIDsOf(state') \ TaskIDsOf(state)
              IN ToColumn(req) =>
                   \E id \in ids :
                     InsertedAt(CategoryOf(state, req.CategoryID).Tasks,
                                CategoryOf(state', req.CategoryID).Tasks,
                                id, req.Position, SameTask)
       ELSE IF last'.op = "MoveTask"
         THEN LET id == last'.args[1]
                  dest == last'.args[2]
                  loc == findTask(state, id).loc
                  column == CategoryOf(state, dest.CategoryID)
              IN ToColumn(dest) =>
                   InsertedAt(IF loc.Kind = LocationCategory
                                 /\ At(state.Categories, loc.CategoryIndex) = column
                                THEN RemoveAt(column.Tasks, loc.TaskIndex)
                                ELSE column.Tasks,
                              CategoryOf(state', dest.CategoryID).Tasks,
                              id, dest.Position, SameTask)
       ELSE LET id == last'.args[1]
                dest == last'.args[2]
            IN ToBoard(dest) =>
                 InsertedAt(WithoutID(state.Categories, id), state'.Categories,
                            id, dest.Position, SameCategory)]_vars

\* task t2, second in column c1, was moved to position 0 of that column and is
\* first, t1 after it
MovedToFront ==
  /\ calls = 1
  /\ last.op = "MoveTask"
  /\ last.err = ErrNone
  /\ last.args[1] = "t2"
  /\ last.args[2].Position = <<0>>
  /\ Len(state.Categories) = 2
  /\ Len(state.Categories[1].Tasks) = 2
  /\ state.Categories[1].Tasks[1].ID = "t2"
  /\ state.Categories[1].Tasks[2].ID = "t1"

\* C32 (returned entity matches the board): after a CreateTask, UpdateTask,
\* MoveTask, MoveCategory or SetFocused (of a task) that succeeded, the task or
\* category the call returned is, field for field, a task or category of the
\* board the call returned.
ReturnedEntityMatches ==
  (last.err = ErrNone /\ last.op \in {"CreateTask", "UpdateTask", "MoveTask", "MoveCategory",
                                       "SetFocused"}
     /\ ~(last.op = "SetFocused" /\ last.args[1] = ""))
    => IF last.op = "MoveCategory"
         THEN last.entity \in Range(AllCategories(state))
         ELSE last.entity \in Range(AllTasks(state))

\* C33 (no absent container reaches a caller): the board a GetState returns,
\* and the board a mutation that succeeded returns, has each of the five
\* containers present.
NoAbsentContainer ==
  \A c \in Callers :
    (proc[c].pc = "read" \/ (proc[c].pc = "returned" /\ proc[c].err = ErrNone))
      => DOMAIN proc[c].snapshot = BoardFields

\* C34 (memory and file agree without I/O faults): in a run where no save has
\* failed, after every call the board in memory is the board of the file at
\* the data path; and a call that returns a validation, not-found, capacity or
\* limit error leaves the board in memory and the file as they were.
MemoryAndFileAgree ==
  /\ [](last.err # ErrSave =>
          (Whole(Canonical(fs)) /\ BoardIn(Canonical(fs)) = state))
  /\ [][(last'.err \notin Applied /\ last'.err # ErrNotArchived)
          => (state' = state /\ fs' = fs)]_vars

\* C35 (urgent flags of bystanders are kept): an UpdateTask that is applied to
\* a task of a column and leaves it not urgent, and a MoveTask that is applied
\* and puts a task that is not urgent into a column, leave urgent the tasks of
\* that column that were urgent, the task itself aside.
BystandersKeepUrgent ==
  [][(last'.op \in {"UpdateTask", "MoveTask"} /\ last'.err \in Applied) =>
       LET id == last'.args[1]
           loc == findTask(state, id).loc
           update == last'.op = "UpdateTask"
           column == IF update THEN loc.CategoryIndex
                     ELSE findCategoryIndex(state.Categories, last'.args[2].CategoryID)
           notUrgent ==
             IF update
               THEN /\ loc.Kind = LocationCategory
                    /\ IF last'.args[2].Urgent # <<>> THEN ~last'.args[2].Urgent[1]
                       ELSE ~TaskAt(state, loc).Urgent
               ELSE ToColumn(last'.args[2]) /\ ~TaskAt(state, loc).Urgent
       IN notUrgent =>
            UrgentIDs(At(state'.Categories, column)) \ {id}
              = UrgentIDs(At(state.Categories, column)) \ {id}]_vars

\* C36 (no urgent task in the flat pools): no task of Backburner or Archives is
\* urgent.
NoUrgentInFlatPools ==
  \A t \in Range(ParkedTasks(state)) : ~t.Urgent

\* C37 (lock release and progress): a caller that holds the write lock
\* releases it, whether its closure fails, its save fails or the call
\* succeeds; and a caller that waits for the lock, to write or to read, gets
\* it and returns.
LockProgress ==
  \A c \in Callers :
    (proc[c].pc \in {"waiting", "asking", "holding", "reading"})
      ~> (proc[c].pc \in {"returned", "read"} /\ mu # c)

\* a caller holds the lock that the other caller has released on returning
\* the error of its closure
AcquiredAfterError ==
  \E c, d \in Callers :
    /\ proc[c].pc = "returned"
    /\ proc[c].err \notin Applied
    /\ proc[d].pc = "holding"
    /\ mu = d

====
